---- MODULE Spec2Model ----
(***************************************************************************)
(* Ingestion pipeline of the Haiti crisis dashboard: the harvester         *)
(* (src/harvester.py) and the processor (src/processor.py) classify a      *)
(* document with an LLM, resolve a location, and insert a row into the     *)
(* reports table (src/database.py).                                        *)
(*                                                                         *)
(* Texts are TLA+ strings and the Python string operations (in, split,     *)
(* strip, lower, len) are computed on them.  Strings are kept ASCII; three *)
(* characters of the source are written with stand-ins of the same length: *)
(*     ~  the backquote (a Markdown fence is "~~~")                        *)
(*     /  e with acute accent      ^  a with circumflex                    *)
(*     %  i with diaeresis                                                 *)
(***************************************************************************)
EXTENDS Integers, Sequences, FiniteSets, TLC

VARIABLES reports, audit, clock, inp, out, hpc, pend, cache, columns

vars == <<reports, audit, clock, inp, out, hpc, pend, cache, columns>>

(***************************************************************************)
(* Python string operations                                                *)
(***************************************************************************)

\* str.find: the first index (1-based) at which p occurs in s, 0 when absent
Find(s, p) ==
    LET hits == {i \in 1..(Len(s) - Len(p) + 1) : SubSeq(s, i, i + Len(p) - 1) = p}
    IN  IF hits = {} THEN 0 ELSE CHOOSE i \in hits : \A j \in hits : i <= j

\* p in s
Contains(s, p) == Find(s, p) > 0

RECURSIVE PySplit(_, _)
\* s.split(sep), sep non-empty
PySplit(s, sep) ==
    LET i == Find(s, sep)
    IN  IF i = 0 THEN <<s>>
        ELSE <<SubSeq(s, 1, i - 1)>> \o PySplit(SubSeq(s, i + Len(sep), Len(s)), sep)

IsSpace(c) == c \in {" ", "\n", "\t", "\r"}

RECURSIVE LStrip(_)
LStrip(s) ==
    IF Len(s) > 0 /\ IsSpace(SubSeq(s, 1, 1)) THEN LStrip(SubSeq(s, 2, Len(s))) ELSE s

RECURSIVE RStrip(_)
RStrip(s) ==
    IF Len(s) > 0 /\ IsSpace(SubSeq(s, Len(s), Len(s)))
    THEN RStrip(SubSeq(s, 1, Len(s) - 1)) ELSE s

\* s.strip()
Strip(s) == RStrip(LStrip(s))

Upper == <<"A","B","C","D","E","F","G","H","I","J","K","L","M",
           "N","O","P","Q","R","S","T","U","V","W","X","Y","Z">>
LowerLetters == <<"a","b","c","d","e","f","g","h","i","j","k","l","m",
           "n","o","p","q","r","s","t","u","v","w","x","y","z">>

LowerChar(c) ==
    IF \E k \in 1..26 : Upper[k] = c
    THEN LowerLetters[CHOOSE k \in 1..26 : Upper[k] = c] ELSE c

RECURSIVE Lower(_)
\* s.lower()
Lower(s) == IF Len(s) = 0 THEN "" ELSE LowerChar(SubSeq(s, 1, 1)) \o Lower(SubSeq(s, 2, Len(s)))

\* any(k in text.lower() for k in keys), keys a sequence of lower-case strings
AnyIn(keys, text) == LET tl == Lower(text) IN \E k \in 1..Len(keys) : Contains(tl, keys[k])


(***************************************************************************)
(* Gazetteers and keyword sets                                             *)
(***************************************************************************)

\* harvester.py, self.haiti_locations
haiti_locations ==
    << "Cit/ Soleil", "Cite Soleil", "Martissant", "Bel Air", "Belair",
       "Delmas", "P/tion-Ville", "Petion-Ville", "Carrefour", "Tabarre",
       "Croix-des-Bouquets", "Croix des Bouquets", "Port-au-Prince",
       "Gona%ves", "Gonaives", "Cap-Ha%tien", "Cap-Haitien", "Saint-Marc",
       "Les Cayes", "Jacmel", "J/r/mie", "Jeremie", "Hinche",
       "La Saline", "Village de Dieu", "Boston", "L/og^ne", "Leogane",
       "Artibonite", "Nord", "Sud", "Ouest", "Centre", "Nippes", "Sud-Est",
       "Nord-Est", "Grande-Anse", "Mirago^ne", "Miragoane" >>

conflict_keywords ==
    << "gang", "shooting", "kidnap", "abduction", "armed", "conflict", "clash",
       "gunfire", "assassination", "homicide", "extortion", "looting", "blockade",
       "roadblock", "insecurity", "violence", "attack", "crossfire", "rape",
       "sexual violence" >>

disaster_keywords ==
    << "earthquake", "tremor", "flood", "hurricane", "storm", "cyclone",
       "tropical storm", "landslide", "mudslide", "rainstorm", "drought",
       "wildfire", "tsunami", "aftershock" >>

Loc(key, names, type, parent) == [key |-> key, names |-> names, type |-> type, parent |-> parent]

\* processor.py, HAITI_LOCATIONS, in declaration order
HAITI_LOCATIONS ==
    << Loc("cite_soleil", <<"Cit/ Soleil", "Cite Soleil", "Soleil">>, "neighborhood", "Port-au-Prince"),
       Loc("martissant", <<"Martissant">>, "neighborhood", "Port-au-Prince"),
       Loc("bel_air", <<"Bel Air", "Belair">>, "neighborhood", "Port-au-Prince"),
       Loc("delmas", <<"Delmas">>, "neighborhood", "Port-au-Prince"),
       Loc("petion_ville", <<"P/tion-Ville", "Petion-Ville", "Petionville">>, "neighborhood", "Port-au-Prince"),
       Loc("carrefour", <<"Carrefour">>, "neighborhood", "Port-au-Prince"),
       Loc("tabarre", <<"Tabarre">>, "neighborhood", "Port-au-Prince"),
       Loc("croix_des_bouquets", <<"Croix-des-Bouquets", "Croix des Bouquets">>, "commune", "Ouest"),
       Loc("kenscoff", <<"Kenscoff", "Kenskoff">>, "commune", "Ouest"),
       Loc("gressier", <<"Gressier">>, "commune", "Ouest"),
       Loc("grand_goave", <<"Grand-Go^ve", "Grand Goave">>, "commune", "Ouest"),
       Loc("leogane", <<"L/og^ne", "Leogane">>, "commune", "Ouest"),
       Loc("gonaives", <<"Gona%ves", "Gonaives">>, "city", "Artibonite"),
       Loc("saint_marc", <<"Saint-Marc", "Saint Marc">>, "city", "Artibonite"),
       Loc("dessalines", <<"Dessalines">>, "commune", "Artibonite"),
       Loc("ponte_sonde", <<"Ponte-Sond/", "Ponte Sonde">>, "commune", "Artibonite"),
       Loc("cap_haitien", <<"Cap-Ha%tien", "Cap-Haitien", "Cap Haitien", "Le Cap">>, "city", "Nord"),
       Loc("fort_dauphin", <<"Fort-Dauphin", "Fort Dauphin">>, "commune", "Nord"),
       Loc("ouanaminthe", <<"Ouanaminthe">>, "commune", "Nord"),
       Loc("fort_liberte", <<"Fort-Libert/", "Fort Liberte">>, "commune", "Nord-Est"),
       Loc("les_cayes", <<"Les Cayes", "Cayes">>, "city", "Sud"),
       Loc("jeremie", <<"J/r/mie", "Jeremie">>, "city", "Grande-Anse"),
       Loc("hinche", <<"Hinche">>, "city", "Centre"),
       Loc("mirebalais", <<"Mirebalais">>, "commune", "Centre"),
       Loc("miragoane", <<"Mirago^ne", "Miragoane">>, "city", "Nippes"),
       Loc("jacmel", <<"Jacmel">>, "city", "Sud-Est"),
       Loc("la_saline", <<"La Saline", "Lasaline">>, "slum", "Port-au-Prince"),
       Loc("boston", <<"Boston">>, "neighborhood", "Port-au-Prince"),
       Loc("village_de_dieu", <<"Village de Dieu">>, "slum", "Port-au-Prince"),
       Loc("tokyo", <<"Tokyo">>, "neighborhood", "Port-au-Prince"),
       Loc("wharf_jeremie", <<"Wharf J/r/mie", "Wharf Jeremie">>, "neighborhood", "Port-au-Prince"),
       Loc("port_au_prince", <<"Port-au-Prince", "Port au Prince">>, "city", "Ouest") >>

\* database.py, locations_data: location_name -> (latitude, longitude), the
\* numbers written as Python formats them in f"{latitude},{longitude}"
Place(name, lat, lon) == [name |-> name, lat |-> lat, lon |-> lon]

location_hierarchy ==
    << Place("Cit/ Soleil", "18.5944", "-72.3251"), Place("Martissant", "18.5089", "-72.357"),
       Place("Bel Air", "18.5463", "-72.3387"), Place("Delmas", "18.5456", "-72.3084"),
       Place("P/tion-Ville", "18.5125", "-72.2851"), Place("La Saline", "18.5539", "-72.3478"),
       Place("Village de Dieu", "18.52", "-72.36"), Place("Carrefour", "18.5417", "-72.3958"),
       Place("Tabarre", "18.5833", "-72.2833"), Place("Croix-des-Bouquets", "18.5833", "-72.2167"),
       Place("L/og^ne", "18.5167", "-72.6333"), Place("Gona%ves", "19.45", "-72.69"),
       Place("Saint-Marc", "19.1167", "-72.7"), Place("Cap-Ha%tien", "19.7667", "-72.2"),
       Place("Les Cayes", "18.2", "-73.75"), Place("Jacmel", "18.2333", "-72.5333"),
       Place("J/r/mie", "18.65", "-74.1167"), Place("Hinche", "19.15", "-71.9833") >>

\* the SQL NULL / Python None of a nullable column
NULL == "<NULL>"

(***************************************************************************)
(* Gazetteer look-ups                                                      *)
(***************************************************************************)

\* loc.lower() for every listed name
haiti_locations_lower == [k \in 1..Len(haiti_locations) |-> Lower(haiti_locations[k])]

RECURSIVE Variants(_)
\* the (entry, name variant) pairs of a list of gazetteer entries, in the
\* order the two nested loops of find_specific_haiti_location visit them
Variants(locs) ==
    IF Len(locs) = 0 THEN <<>>
    ELSE [v \in 1..Len(locs[1].names) |->
            [name |-> locs[1].names[v], type |-> locs[1].type,
             parent |-> locs[1].parent, key |-> locs[1].key]]
         \o Variants(Tail(locs))

AllVariants == Variants(HAITI_LOCATIONS)

\* name_variant.lower() for every variant
AllVariantsLower == [k \in 1..Len(AllVariants) |-> Lower(AllVariants[k].name)]

priority_order(type) ==
    CASE type = "slum" -> 4 [] type = "neighborhood" -> 3
      [] type = "commune" -> 2 [] type = "city" -> 1 [] OTHER -> 0

NoLocation == [name |-> NULL, type |-> "unknown", parent |-> "", key |-> NULL]

\* faulty variant of FirstByPriority: the first match in declaration order
FirstFound(variants, hits) == variants[CHOOSE k \in hits : \A j \in hits : k <= j]

\* found_locations.sort(key=priority, reverse=True); found_locations[0]:
\* the first of the matches (indices into variants) with the highest priority
FirstByPriority(variants, hits) ==
    variants[CHOOSE k \in hits :
                \A j \in hits :
                   \/ priority_order(variants[k].type) > priority_order(variants[j].type)
                   \/ /\ priority_order(variants[k].type) = priority_order(variants[j].type)
                      /\ k <= j]

\* the indices of the names (lower-case) that occur in the text
Matches(names, text_lower) == {k \in 1..Len(names) : Contains(text_lower, names[k])}

\* the least element of a non-empty set of indices
First(hits) == CHOOSE k \in hits : \A j \in hits : k <= j

\* processor.find_specific_haiti_location: all matching variants, stably sorted
\* by priority (descending); the first one, or None
find_specific_haiti_location(text) ==
    LET hits == Matches(AllVariantsLower, Lower(text))
    IN  IF hits = {} THEN NoLocation ELSE FirstByPriority(AllVariants, hits)

\* harvester.detect_location_fallback: the first listed name occurring in the text
detect_location_fallback(text) ==
    LET hits == Matches(haiti_locations_lower, Lower(text))
    IN  IF hits = {} THEN NULL ELSE haiti_locations[First(hits)]

(***************************************************************************)
(* JSON values, as json.loads returns them                                 *)
(***************************************************************************)

JNull     == [t |-> "null"]
JInt(n)   == [t |-> "int", i |-> n]
JBool(b)  == [t |-> "bool", b |-> b]
JFloat(x) == [t |-> "float", f |-> x]
JStr(x)   == [t |-> "str", s |-> x]
JList(l)  == [t |-> "list", l |-> l]
JDict(d)  == [t |-> "dict", d |-> d]
\* json.JSONDecodeError
JError    == [t |-> "error"]

\* isinstance(v, int): bool is a subclass of int in Python
IsInstanceInt(v) == v.t \in {"int", "bool"}

\* the integer a Python int or bool compares and converts as
IntOf(v) == IF v.t = "bool" THEN (IF v.b THEN 1 ELSE 0) ELSE v.i

\* bool(v)
Truthy(v) ==
    CASE v.t = "null"  -> FALSE
      [] v.t = "int"   -> v.i # 0
      [] v.t = "bool"  -> v.b
      [] v.t = "float" -> v.f \notin {"0.0", "-0.0"}
      [] v.t = "str"   -> v.s # ""
      [] v.t = "list"  -> Len(v.l) > 0
      [] v.t = "dict"  -> DOMAIN v.d # {}

\* str(v) of a scalar
PyStr(v) ==
    CASE v.t = "str"   -> v.s
      [] v.t = "null"  -> "None"
      [] v.t = "int"   -> ToString(v.i)
      [] v.t = "bool"  -> (IF v.b THEN "True" ELSE "False")
      [] v.t = "float" -> v.f

\* d.get(k, default)
DictGet(d, k, default) == IF k \in DOMAIN d THEN d[k] ELSE default

\* d[k] = v
DictSet(d, k, v) == [x \in (DOMAIN d) \cup {k} |-> IF x = k THEN v ELSE d[x]]

RECURSIVE JoinStrs(_, _)
\* sep.join(l) for a list of str values
JoinStrs(l, sep) ==
    IF Len(l) = 0 THEN ""
    ELSE IF Len(l) = 1 THEN l[1].s
    ELSE l[1].s \o sep \o JoinStrs(Tail(l), sep)

(***************************************************************************)
(* JSON texts: the literals and objects the model answers with, and        *)
(* json.loads on them.  Any other text is not JSON and fails to parse.     *)
(***************************************************************************)

Lit(text, val) == [text |-> text, val |-> val]

Literals ==
    { Lit("\"kidnapping\"", JStr("kidnapping")), Lit("\"flood\"", JStr("flood")),
      Lit("\"natural_disaster\"", JStr("natural_disaster")),
      Lit("\"aid_needed\"", JStr("aid_needed")), Lit("\"Armed_Violence\"", JStr("Armed_Violence")),
      Lit("\"\"", JStr("")), Lit("null", JNull),
      Lit("[\"violence\", \"protest\"]", JList(<<JStr("violence"), JStr("protest")>>)),
      Lit("[]", JList(<<>>)),
      Lit("\"protest\"", JStr("protest")), Lit("\"Jacmel\"", JStr("Jacmel")),
      Lit("\"Delmas\"", JStr("Delmas")), Lit("\"Haiti\"", JStr("Haiti")),
      Lit("\" haiti \"", JStr(" haiti ")), Lit("\"Ouest\"", JStr("Ouest")),
      Lit("\"Port-au-Prince, Ouest Department\"", JStr("Port-au-Prince, Ouest Department")),
      Lit("[\"Delmas\", \"Tabarre\"]", JList(<<JStr("Delmas"), JStr("Tabarre")>>)),
      Lit("\"~~~{\"", JStr("~~~{")), Lit("\"~~~json{\"", JStr("~~~json{")),
      Lit("-1", JInt(-1)), Lit("0", JInt(0)), Lit("1", JInt(1)), Lit("3", JInt(3)),
      Lit("5", JInt(5)), Lit("6", JInt(6)), Lit("\"4\"", JStr("4")),
      Lit("4.5", JFloat("4.5")), Lit("4.0", JFloat("4.0")),
      Lit("true", JBool(TRUE)), Lit("false", JBool(FALSE)) }

LiteralTexts == {l.text : l \in Literals}

ValueOf(text) == (CHOOSE l \in Literals : l.text = text).val

\* one "key": literal member of an object
KV(k, lit) == [k |-> k, lit |-> lit]

RECURSIVE MembersText(_)
MembersText(kvs) ==
    IF Len(kvs) = 0 THEN ""
    ELSE "\"" \o kvs[1].k \o "\": " \o kvs[1].lit
         \o (IF Len(kvs) > 1 THEN ", " ELSE "") \o MembersText(Tail(kvs))

\* the JSON text of an object given as a sequence of members
ObjectText(kvs) == "{" \o MembersText(kvs) \o "}"

\* the dict json.loads returns for it
ObjectValue(kvs) ==
    JDict([k \in {kvs[n].k : n \in 1..Len(kvs)} |->
             ValueOf(kvs[CHOOSE n \in 1..Len(kvs) : kvs[n].k = k].lit)])

\* {"event_type": ev, "location": loc, "severity": sev}; a key whose literal is
\* "" is left out of the object
Payload(ev, loc, sev) ==
    (IF ev = "" THEN <<>> ELSE <<KV("event_type", ev)>>)
    \o (IF loc = "" THEN <<>> ELSE <<KV("location", loc)>>)
    \o (IF sev = "" THEN <<>> ELSE <<KV("severity", sev)>>)

EventLits == {"\"kidnapping\"", "\"flood\"", "\"natural_disaster\"", "\"aid_needed\"",
              "\"Armed_Violence\"", "\"\"", "null", "[\"violence\", \"protest\"]", "[]", ""}

LocationLits == {"\"Delmas\"", "\"Haiti\"", "\" haiti \"", "\"\"", "\"Ouest\"", "null",
                 "\"Port-au-Prince, Ouest Department\"", "[\"Delmas\", \"Tabarre\"]", "[]", ""}

SeverityLits == {"-1", "0", "1", "3", "5", "6", "\"4\"", "4.5", "4.0", "true", "false", "null", ""}

\* objects whose text holds a fence inside a string
FencedInside ==
    { <<KV("location", "\"~~~{\""), KV(": 5}~~~", "1")>>,
      <<KV("location", "\"~~~json{\""), KV(": 5}~~~", "1")>> }

\* the object a retried call answers with
GoodPayload == Payload("\"protest\"", "\"Jacmel\"", "1")

\* the objects the LLM answers with: one field varied at a time
Payloads ==
    {GoodPayload} \cup
    {Payload(ev, "\"Delmas\"", "5") : ev \in EventLits}
    \cup {Payload("\"kidnapping\"", loc, "5") : loc \in LocationLits}
    \cup {Payload("\"kidnapping\"", "\"Delmas\"", sev) : sev \in SeverityLits}
    \cup {Payload("\"aid_needed\"", loc, "3") : loc \in {"\"Haiti\"", "\"\""}}
    \cup FencedInside

\* every text of the model that is a JSON object: the payloads, and the one
\* piece of a payload between two fences that is an object itself
Objects == Payloads \cup { <<KV(", ", "5")>> }

\* the text of every object, and the dict it parses to
ObjectTexts == {ObjectText(o) : o \in Objects}

ParseTable == [s \in ObjectTexts |-> ObjectValue(CHOOSE o \in Objects : ObjectText(o) = s)]

\* json.loads(s): an object, an array of one object, a literal, or an error
JsonLoads(s) ==
    LET elem == IF Len(s) >= 2 THEN SubSeq(s, 2, Len(s) - 1) ELSE ""
    IN  IF s \in ObjectTexts THEN ParseTable[s]
        ELSE IF Len(s) >= 2 /\ SubSeq(s, 1, 1) = "[" /\ SubSeq(s, Len(s), Len(s)) = "]"
                /\ elem \in ObjectTexts
        THEN JList(<<ParseTable[elem]>>)
        ELSE IF s \in LiteralTexts THEN ValueOf(s)
        ELSE JError

(***************************************************************************)
(* The LLM call and the parsing of its answer                              *)
(***************************************************************************)

\* what model.generate_content does: it returns a text or raises
Answer(text) == [ok |-> TRUE, text |-> text]
LlmError     == [ok |-> FALSE, text |-> ""]

FENCE      == "~~~"
FENCE_JSON == "~~~json"

\* harvester.py 182-185 and processor.py 115-118 (the same statements)
StripFences(result) ==
    IF Contains(result, FENCE_JSON)
    THEN Strip(PySplit(PySplit(result, FENCE_JSON)[2], FENCE)[1])
    ELSE IF Contains(result, FENCE)
    THEN Strip(PySplit(PySplit(result, FENCE)[2], FENCE)[1])
    ELSE result

\* severity validation, harvester.py 189-190 and processor.py 140-141
ValidSeverity(severity) ==
    IF ~IsInstanceInt(severity) \/ IntOf(severity) < 1 \/ IntOf(severity) > 5
    THEN JInt(3) ELSE severity

None == [t |-> "none"]

\* harvester.py 187-191: parsed is what json.loads returned
ValidateParsed(parsed) ==
    IF parsed.t # "dict" THEN None  \* JSONDecodeError, or no .get attribute
    ELSE JDict(DictSet(parsed.d, "severity",
                       ValidSeverity(DictGet(parsed.d, "severity", JInt(3)))))

\* harvester.classify_with_enhanced_ai: the parsed dict with its severity
\* validated, or None when anything in the try block raised
classify_with_enhanced_ai(llm) ==
    IF ~llm.ok THEN None
    ELSE ValidateParsed(JsonLoads(StripFences(Strip(llm.text))))

Classified(event_type, location, severity) ==
    [event_type |-> event_type, location |-> location, severity |-> severity]

DefaultClassification == Classified("other", "", 3)

\* value[0] if value else default, for a field that is a list
FirstOr(value, default) ==
    IF value.t = "list" THEN (IF Len(value.l) > 0 THEN value.l[1] ELSE default) ELSE value

\* processor.py 133-147: the fields of the parsed dict d, coerced
CoerceFields(d) ==
    [k |-> "return",
     res |-> Classified(PyStr(FirstOr(DictGet(d, "event_type", JStr("other")), JStr("other"))),
                        PyStr(FirstOr(DictGet(d, "location", JStr("")), JStr(""))),
                        IntOf(ValidSeverity(DictGet(d, "severity", JInt(3)))))]

\* processor.py 120-147: loaded is what json.loads returned
CoerceParsed(loaded) ==
    IF loaded.t = "error" THEN [k |-> "except"]
    ELSE IF loaded.t = "list"
    THEN (IF Len(loaded.l) > 0 /\ loaded.l[1].t = "dict"
          THEN CoerceFields(loaded.l[1].d)
          ELSE [k |-> "return", res |-> DefaultClassification])
    ELSE IF loaded.t # "dict" THEN [k |-> "except"]  \* no .get attribute
    ELSE CoerceFields(loaded.d)

\* one pass through the try block of processor.process_with_gemini_pro:
\* "return" with a result, or "except" when it raised
GeminiAttempt(llm) ==
    IF ~llm.ok THEN [k |-> "except"]
    ELSE CoerceParsed(JsonLoads(StripFences(Strip(llm.text))))

RECURSIVE SleepAfterLast(_, _, _)
\* faulty variant of GeminiLoop: the loop sleeps after its last failed attempt too
SleepAfterLast(llms, i, retries) ==
    LET a == GeminiAttempt(llms[i])
    IN  IF a.k = "return" THEN [res |-> a.res, calls |-> i, sleeps |-> i - 1]
        ELSE IF i < retries THEN SleepAfterLast(llms, i + 1, retries)
        ELSE [res |-> DefaultClassification, calls |-> i, sleeps |-> i]

RECURSIVE GeminiLoop(_, _, _)
\* the retry loop from attempt i on; llms[i] is what the i-th call does
GeminiLoop(llms, i, retries) ==
    LET a == GeminiAttempt(llms[i])
    IN  IF a.k = "return" THEN [res |-> a.res, calls |-> i, sleeps |-> i - 1]
        ELSE IF i < retries THEN GeminiLoop(llms, i + 1, retries)
        ELSE [res |-> DefaultClassification, calls |-> i, sleeps |-> i - 1]

\* retries=3 of process_with_gemini_pro
Retries == 3

\* processor.process_with_gemini_pro
process_with_gemini_pro(llms) == GeminiLoop(llms, 1, Retries)

(***************************************************************************)
(* Harvester: one fetched item through extract_content_text,               *)
(* process_single_item and store_content                                   *)
(***************************************************************************)

\* an item of the API answer: its fields, or something that is not a dict
Item(title, body, source, url_alias, created) ==
    [dict |-> TRUE, title |-> title, body |-> body, source |-> source,
     url_alias |-> url_alias, created |-> created, content_type |-> "reports"]

NotADict == [dict |-> FALSE, title |-> "", body |-> "", source |-> NULL,
             url_alias |-> "", created |-> "", content_type |-> "reports"]

\* content_type.title()
TitleCase(content_type) ==
    CASE content_type = "reports" -> "Reports" [] content_type = "blog" -> "Blog"
      [] content_type = "references" -> "References" [] OTHER -> content_type

NoContent == [k |-> "none"]

\* harvester.extract_content_text, for the content types that are harvested
extract_content_text(item) ==
    IF ~item.dict THEN NoContent
    ELSE LET source    == IF item.source # NULL THEN item.source
                          ELSE TitleCase(item.content_type)
             full_text == IF item.body # "" THEN item.title \o ". " \o item.body
                          ELSE item.title
             prefixed  == IF source # "" /\ source # TitleCase(item.content_type)
                          THEN "Source: " \o source \o ". " \o full_text ELSE full_text
         IN  [k |-> "content", text |-> Strip(prefixed), title |-> item.title,
              source |-> source, content_type |-> item.content_type,
              created_date |-> item.created,
              url |-> "https://reliefweb.int" \o item.url_alias]

ItemAttack  == Item("Gang attack in Delmas", "Armed men opened fire near Cite Soleil",
                    "OCHA", "/report/attack", "2024-03-01")
ItemNord19  == Item("Haiti: Nord clashes", "", NULL, "/report/nord", "2024-03-02")
ItemTokyo20 == Item("Haiti: Tokyo clashes", "", NULL, "/report/tokyo", "2024-03-03")
ItemPadded  == Item("Haiti: Sud clashes  ", "", NULL, "/report/sud", "2024-03-04")
ItemSud     == Item("Armed clashes reported in Sud", "", "Reports", "/report/sud2", "")
ItemFlood   == Item("Flood and gang violence hit Les Cayes", "", "IOM", "/report/flood",
                    "2024-03-05")
ItemNeutral == Item("Education funding review for Haiti", "Quarterly budget figures",
                    NULL, "/report/budget", "2024-03-06")
ItemCayes   == Item("Cholera cases rising in Cayes", "Health teams list new patients",
                    "PAHO", "", "2024-03-07")

Items == {ItemAttack, ItemNord19, ItemTokyo20, ItemPadded, ItemSud, ItemFlood,
          ItemNeutral, ItemCayes, NotADict}

\* the text the processor is called with for an item: its title and body
RawTextOf(item) == IF item.body # "" THEN item.title \o ". " \o item.body ELSE item.title

\* the report_url the processor is called with: None when the item has no alias
ReportUrlOf(item) ==
    IF item.url_alias = "" THEN NULL ELSE "https://reliefweb.int" \o item.url_alias

\* the texts the gazetteers and keyword sets are scanned for
KnownTexts ==
    {extract_content_text(item).text : item \in Items \ {NotADict}}
    \cup {RawTextOf(item) : item \in Items}

\* memo of the scans of a known text; the scans themselves are the operators
\* detect_location_fallback, find_specific_haiti_location and AnyIn
ScanMemo ==
    [t \in KnownTexts |->
        [fallback |-> detect_location_fallback(t),
         local    |-> find_specific_haiti_location(t),
         conflict |-> AnyIn(conflict_keywords, t),
         disaster |-> AnyIn(disaster_keywords, t)]]

FallbackLocation(text) ==
    IF text \in KnownTexts THEN ScanMemo[text].fallback ELSE detect_location_fallback(text)

LocalLocation(text) ==
    IF text \in KnownTexts THEN ScanMemo[text].local ELSE find_specific_haiti_location(text)

\* any(k in text.lower() for k in self.conflict_keywords)
HasConflictKeyword(text) ==
    IF text \in KnownTexts THEN ScanMemo[text].conflict ELSE AnyIn(conflict_keywords, text)

\* any(d in text.lower() for d in self.disaster_keywords)
HasDisasterKeyword(text) ==
    IF text \in KnownTexts THEN ScanMemo[text].disaster ELSE AnyIn(disaster_keywords, text)

\* the minimum text length of process_single_item
MinTextLen == 20

\* the disasters list of normalize_event_type
disasters == <<"earthquake", "flood", "hurricane", "storm", "cyclone", "landslide",
               "drought", "tsunami">>

\* the mapping of normalize_event_type, in dict order
mapping ==
    << <<"violence", "violence">>, <<"armed_violence", "violence">>,
       <<"attack", "violence">>, <<"shooting", "violence">>,
       <<"kidnapping", "kidnapping">>, <<"kidnap", "kidnapping">>,
       <<"abduction", "kidnapping">>, <<"sexual_violence", "sexual_violence">>,
       <<"rape", "sexual_violence">>, <<"displacement", "displacement">>,
       <<"protest", "protest">>, <<"looting", "looting">>, <<"roadblock", "roadblock">> >>

\* harvester.normalize_event_type; event_type is a JSON value
normalize_event_type(event_type, text) ==
    IF ~Truthy(event_type) THEN "other"
    ELSE LET e    == Lower(PyStr(event_type))
             hits == {k \in 1..Len(mapping) : Contains(e, mapping[k][1])}
         IN  IF (\E d \in 1..Len(disasters) : Contains(e, disasters[d]))
                \/ HasDisasterKeyword(text)
             THEN "natural_disaster"
             ELSE IF hits # {}
             THEN mapping[CHOOSE k \in hits : \A j \in hits : k <= j][2]
             ELSE IF HasConflictKeyword(text) THEN "violence"
             ELSE IF e # "" THEN e ELSE "other"

ConflictTypes == {"violence", "kidnapping", "sexual_violence", "displacement",
                  "protest", "looting", "roadblock"}

\* faulty variant of is_conflict_related: the natural_disaster test is left out
ConflictByKeyword(normalized_event_type, text) ==
    IF normalized_event_type \in ConflictTypes THEN TRUE
    ELSE HasConflictKeyword(text)

\* harvester.is_conflict_related
is_conflict_related(normalized_event_type, text) ==
    IF normalized_event_type = "natural_disaster" THEN FALSE
    ELSE IF normalized_event_type \in ConflictTypes THEN TRUE
    ELSE HasConflictKeyword(text)

\* what the geocoding service answers for "<location>, Haiti"
GeoCoords == "18.5,-72.3"

\* faulty variant of get_coordinates: the attributes of a missing place are
\* formatted
CoordinatesUnchecked(location_text, geo) ==
    IF location_text = "" THEN NULL
    ELSE IF geo = "ok" THEN GeoCoords ELSE "None,None"

\* harvester.get_coordinates; geo is what self.geolocator.geocode does:
\* "ok" (a place), "none" (no match) or "raise"
get_coordinates(location_text, geo) ==
    IF location_text = "" THEN NULL
    ELSE IF geo = "ok" THEN GeoCoords ELSE NULL

\* faulty variant of the length filter: a text of exactly the minimum length is
\* dropped as well
TooShortOrEqual(text) == Len(text) <= MinTextLen

\* the length filter of process_single_item
TooShort(text) == Len(text) < MinTextLen

\* norm is the normalized event type, NULL when it was not computed
Result(k, rec, calls, norm) == [k |-> k, rec |-> rec, calls |-> calls, norm |-> norm]

NoRecord == [k |-> "none"]

\* harvester.py 241-261: the geocoding call, the domain filter and the record
FilterRecord(content_data, location_text, severity, normalized_event, geo) ==
    IF ~is_conflict_related(normalized_event, content_data.text)
    THEN Result("none", NoRecord,
                <<"llm">> \o (IF location_text # "" THEN <<"geocode">> ELSE <<>>),
                normalized_event)
    ELSE Result("record",
                [k |-> "record", text |-> content_data.text, title |-> content_data.title,
                 event_type |-> normalized_event, location_text |-> location_text,
                 location_coords |-> get_coordinates(location_text, geo),
                 source |-> content_data.source,
                 content_type |-> content_data.content_type, severity |-> severity,
                 created_date |-> content_data.created_date, url |-> content_data.url],
                <<"llm">> \o (IF location_text # "" THEN <<"geocode">> ELSE <<>>),
                normalized_event)

\* harvester.py 219-239: the fields of the classification (a dict d), the
\* event type joined when it is a list, the location replaced by the fallback
\* when it is "Haiti" or blank
UseClassification(content_data, d, fallback_loc, geo) ==
    LET ev0 == DictGet(d, "event_type", JStr("other"))
        loc == DictGet(d, "location", JStr(""))
    IN  IF loc.t # "str"
        THEN Result("raise", NoRecord, <<"llm">>, NULL)  \* location_text.strip(): no such attribute
        ELSE FilterRecord(content_data,
                 IF Lower(Strip(loc.s)) = "haiti" \/ Strip(loc.s) = ""
                 THEN (IF fallback_loc # NULL THEN fallback_loc ELSE loc.s)
                 ELSE loc.s,
                 DictGet(d, "severity", JInt(3)),
                 normalize_event_type(IF ev0.t = "list" THEN JStr(JoinStrs(ev0.l, ", ")) ELSE ev0,
                                      content_data.text),
                 geo)

\* harvester.py 216-239: ai_result is what classify_with_enhanced_ai returned
AfterClassification(content_data, ai_result, fallback_loc, geo) ==
    IF ai_result.t = "dict"
    THEN UseClassification(content_data, ai_result.d, fallback_loc, geo)
    ELSE FilterRecord(content_data, IF fallback_loc # NULL THEN fallback_loc ELSE "",
                      JInt(3), normalize_event_type(JStr("other"), content_data.text), geo)

\* harvester.process_single_item: k is "none" (returned None), "record"
\* (returned the dict rec) or "raise" (an exception left the function);
\* calls are the external calls it made, in order
process_single_item(content_data, llm, geo) ==
    IF content_data.k = "none" THEN Result("none", NoRecord, <<>>, NULL)
    ELSE IF TooShort(content_data.text) THEN Result("none", NoRecord, <<>>, NULL)
    ELSE AfterClassification(content_data, classify_with_enhanced_ai(llm),
                             FallbackLocation(content_data.text), geo)

\* datetime.now().isoformat() at tick n of the clock
Timestamp(n) == "T" \o ToString(n)

\* the value sqlite3 binds for a Python int or bool
SqliteInt(v) == IntOf(v)

\* the row store_content inserts for a processed record; the columns it does
\* not name are NULL
HarvesterRow(rec, now) ==
    [timestamp |-> Timestamp(now), raw_text |-> rec.text, title |-> rec.title,
     event_type |-> rec.event_type, location_text |-> rec.location_text,
     location_coords |-> rec.location_coords, latitude |-> NULL, longitude |-> NULL,
     location_metadata |-> NULL, source_name |-> rec.source,
     content_type |-> rec.content_type, severity |-> SqliteInt(rec.severity),
     report_url |-> rec.url, created_date |-> rec.created_date]

\* faulty variant of the look-up: the URL is compared with the title column
TitleStored(table, url) == \E n \in 1..Len(table) : table[n].title = url

\* SELECT 1 FROM reports WHERE report_url = ? LIMIT 1
UrlStored(table, url) == \E n \in 1..Len(table) : table[n].report_url = url

\* faulty variant of the de-duplication test: the look-up is skipped
NeverDuplicate(table, rec) == FALSE

\* the de-duplication test of store_content
IsDuplicate(table, rec) == rec.url # "" /\ UrlStored(table, rec.url)

\* faulty variant of store_content: a failing statement goes unnoticed
StoreUnchecked(table, rec, now, db) ==
    IF IsDuplicate(table, rec)
    THEN [table |-> table, ret |-> FALSE, calls |-> <<"select">>]
    ELSE [table |-> Append(table, HarvesterRow(rec, now)), ret |-> TRUE,
          calls |-> (IF rec.url # "" THEN <<"select">> ELSE <<>>) \o <<"insert">>]

\* faulty variant of store_content: a row with the same URL is replaced
StoreReplacing(table, rec, now, db) ==
    IF db # "ok" THEN [table |-> table, ret |-> FALSE, calls |-> <<"db">>]
    ELSE [table |-> SelectSeq(table, LAMBDA r : r.report_url # rec.url)
                    \o <<HarvesterRow(rec, now)>>,
          ret |-> TRUE, calls |-> <<"insert">>]

\* harvester.store_content on a table: the table afterwards and the value
\* returned; db is "ok", or "fail" when a statement raises
store_content(table, rec, now, db) ==
    IF db # "ok" THEN [table |-> table, ret |-> FALSE, calls |-> <<"db">>]
    ELSE IF IsDuplicate(table, rec)
    THEN [table |-> table, ret |-> FALSE, calls |-> <<"select">>]
    ELSE [table |-> Append(table, HarvesterRow(rec, now)), ret |-> TRUE,
          calls |-> (IF rec.url # "" THEN <<"select">> ELSE <<>>) \o <<"insert">>]

(***************************************************************************)
(* Processor: process_and_store_report                                     *)
(***************************************************************************)

\* SELECT latitude, longitude FROM location_hierarchy WHERE location_name = ?
HierarchyLookup(name) ==
    LET hits == {k \in 1..Len(location_hierarchy) : location_hierarchy[k].name = name}
    IN  IF hits = {} THEN [lat |-> NULL, lon |-> NULL]
        ELSE LET h == location_hierarchy[CHOOSE k \in hits : TRUE]
             IN  [lat |-> h.lat, lon |-> h.lon]

\* processor.py 165-176: local_match is what find_specific_haiti_location found
\* in location_text; queried tells whether location_hierarchy was selected from
CoordinatesOf(local_match, geo) ==
    IF local_match.name # NULL /\ geo # "raise"
    THEN [lat |-> HierarchyLookup(local_match.name).lat,
          lon |-> HierarchyLookup(local_match.name).lon, queried |-> TRUE]
    ELSE [lat |-> NULL, lon |-> NULL, queried |-> local_match.name # NULL]

\* processor.get_location_coordinates; geo is "raise" when the look-up in
\* location_hierarchy raises
get_location_coordinates(location_text, geo) ==
    IF location_text = "" THEN [lat |-> NULL, lon |-> NULL, queried |-> FALSE]
    ELSE CoordinatesOf(LocalLocation(location_text), geo)

\* json.dumps of the location metadata
MetadataText(type, parent, precision) ==
    "{\"type\": \"" \o type \o "\", \"parent\": \"" \o parent
    \o "\", \"precision\": \"" \o precision \o "\"}"

\* raw_text[:100] + "..." if len(raw_text) > 100 else raw_text
TitleLimit == 100

TitleOf(raw_text) ==
    IF Len(raw_text) > TitleLimit THEN SubSeq(raw_text, 1, TitleLimit) \o "..." ELSE raw_text

\* processor.py 218-252: the row built from the resolved location and its
\* coordinates, and the INSERT
InsertReport(table, raw_text, report_url, local_location, gemini, final_location, coords, now, db) ==
    LET row == [timestamp |-> Timestamp(now), raw_text |-> raw_text,
                title |-> TitleOf(raw_text), event_type |-> gemini.res.event_type,
                location_text |-> final_location,
                location_coords |-> IF coords.lat # NULL /\ coords.lon # NULL
                                    THEN coords.lat \o "," \o coords.lon ELSE NULL,
                latitude |-> coords.lat, longitude |-> coords.lon,
                location_metadata |->
                    MetadataText(local_location.type, local_location.parent,
                                 IF local_location.name # NULL THEN "high"
                                 ELSE IF final_location # "" THEN "medium" ELSE "low"),
                source_name |-> "Manual Input", content_type |-> "manual",
                severity |-> gemini.res.severity, report_url |-> report_url,
                created_date |-> Timestamp(now)]
        calls == [n \in 1..gemini.calls |-> "llm"]
                 \o (IF coords.queried THEN <<"hierarchy">> ELSE <<>>)
    IN  IF db # "ok" THEN [table |-> table, ret |-> FALSE, calls |-> calls \o <<"db">>, row |-> row]
        ELSE [table |-> Append(table, row), ret |-> TRUE, calls |-> calls \o <<"insert">>, row |-> row]

\* processor.py 204-216: the final location, local when it is more specific
FinalLocation(local_location, ai_location) ==
    IF local_location.name # NULL
       /\ (ai_location = "" \/ Len(local_location.name) > Len(ai_location))
    THEN local_location.name ELSE ai_location

\* processor.py 204-252: local_location is what find_specific_haiti_location
\* found in raw_text, gemini what process_with_gemini_pro returned
ResolveAndStore(table, raw_text, report_url, local_location, gemini, geo, now, db) ==
    InsertReport(table, raw_text, report_url, local_location, gemini,
                 FinalLocation(local_location, gemini.res.location),
                 get_location_coordinates(FinalLocation(local_location, gemini.res.location), geo),
                 now, db)

\* processor.process_and_store_report(raw_text, report_url=report_url) on a
\* table; llms are the answers of the successive LLM calls
process_and_store_report(table, raw_text, report_url, llms, geo, now, db) ==
    ResolveAndStore(table, raw_text, report_url, LocalLocation(raw_text),
                    process_with_gemini_pro(llms), geo, now, db)

(***************************************************************************)
(* Inputs: fetched items, LLM answers, geocoder and database behaviour     *)
(***************************************************************************)

\* how the model's answer wraps its JSON object
Wraps == {"raw", "json", "bare", "prose", "array", "array_json"}

Wrap(wrap, text) ==
    CASE wrap = "raw"        -> text
      [] wrap = "json"       -> "~~~json\n" \o text \o "\n~~~"
      [] wrap = "bare"       -> "~~~\n" \o text \o "\n~~~"
      [] wrap = "prose"      -> "Here is the JSON:\n~~~json\n" \o text \o "\n~~~\nDone."
      [] wrap = "array"      -> "[" \o text \o "]"
      [] wrap = "array_json" -> "~~~json\n[" \o text \o "]\n~~~"

\* the objects answered in every wrapping
WrappedPayloads ==
    { Payload("\"kidnapping\"", "\"Delmas\"", "5"), Payload("\"aid_needed\"", "\"Haiti\"", "3"),
      Payload("\"flood\"", "\"Delmas\"", "5"), Payload("\"kidnapping\"", "\"Delmas\"", "true") }
    \cup FencedInside

\* a first answer: an object in a wrapping, a text that is no JSON, or a failed call
FirstAnswers ==
    [kind : {"object"}, payload : Payloads, wrap : {"raw"}]
    \cup [kind : {"object"}, payload : WrappedPayloads, wrap : Wraps]
    \cup [kind : {"garbage", "error"}, payload : {<<>>}, wrap : {"raw"}]

AnswerOf(a) ==
    CASE a.kind = "object"  -> Answer(Wrap(a.wrap, ObjectText(a.payload)))
      [] a.kind = "garbage" -> Answer("I cannot classify this text.")
      [] a.kind = "error"   -> LlmError

\* what every later LLM call of the same run answers
RetryAnswers == {"error", "good"}

GoodAnswer == Answer(ObjectText(GoodPayload))

RetryOf(r) == IF r = "good" THEN GoodAnswer ELSE LlmError

\* the answers of the successive LLM calls of one run
LlmsOf(a, r) == <<AnswerOf(a)>> \o [n \in 1..(Retries - 1) |-> RetryOf(r)]

GeoOutcomes == {"ok", "none", "raise"}

Input(item, first, retry, geo, db) ==
    [item |-> item, first |-> first, retry |-> retry, geo |-> geo, db |-> db]

Idle == [op |-> "idle"]

\* st.cache_data holds no entry for load_crisis_data
NoCache == [k |-> "none"]

\* database.py 14-37: the columns of the reports table as create_reports_table
\* makes it (the row id apart)
ReportsColumns ==
    {"timestamp", "title", "raw_text", "event_type", "specific_type", "broad_category",
     "location_text", "location_coords", "latitude", "longitude", "location_metadata",
     "displaced_people", "schools_closed", "children_recruited", "source_name",
     "content_type", "severity", "report_url", "created_date"}

(***************************************************************************)
(* Operations                                                              *)
(***************************************************************************)

\* harvester.py 432-436: store_content was called on a record and answered stored
CountStored(i, processed, stored) ==
    /\ inp' = i
    /\ reports' = stored.table
    /\ clock' = IF stored.ret THEN clock + 1 ELSE clock
    /\ audit' = IF stored.ret THEN Append(audit, [by |-> 0, seen |-> Len(reports)]) ELSE audit
    /\ out' = [op |-> "harvest", k |-> "record", rec |-> processed.rec,
               norm |-> processed.norm,
               calls |-> processed.calls \o stored.calls, ret |-> stored.ret]

\* harvester.py 430-440: processed is what process_single_item did
AfterProcessing(i, processed) ==
    IF processed.k = "record"
    THEN CountStored(i, processed, store_content(reports, processed.rec, clock, i.db))
    ELSE /\ inp' = i
         /\ out' = [op |-> "harvest", k |-> processed.k, rec |-> NoRecord,
                    norm |-> processed.norm, calls |-> processed.calls, ret |-> FALSE]
         /\ UNCHANGED <<reports, clock, audit, columns>>

\* harvester.py 397-419: extract_content_text, process_single_item and, for a
\* record, store_content on input i
HarvestStep(i) ==
    AfterProcessing(i, process_single_item(extract_content_text(i.item),
                                           AnswerOf(i.first), i.geo))

\* One iteration of the loop of harvest_all_content on input i
HarvestItem(i) == HarvestStep(i) /\ UNCHANGED <<hpc, pend, cache, columns>>

\* the state after process_and_store_report answered r
Processed(i, r) ==
    /\ inp' = i
    /\ reports' = r.table
    /\ clock' = IF r.ret THEN clock + 1 ELSE clock
    /\ audit' = IF r.ret THEN Append(audit, [by |-> -1, seen |-> Len(reports)]) ELSE audit
    /\ out' = [op |-> "process", k |-> "record", rec |-> r.row, norm |-> NULL,
               calls |-> r.calls, ret |-> r.ret]
    /\ UNCHANGED <<hpc, pend, cache, columns>>

\* processor.process_and_store_report on the text and URL of input i
ProcessReport(i) ==
    Processed(i, process_and_store_report(reports, RawTextOf(i.item), ReportUrlOf(i.item),
                                          LlmsOf(i.first, i.retry), i.geo, clock, i.db))

(***************************************************************************)
(* SpecClassify: one ingestion call on an empty table, for every input     *)
(***************************************************************************)

ClassifyInputs ==
    {Input(item, first, retry, geo, "ok") :
        item \in Items, first \in FirstAnswers, retry \in RetryAnswers, geo \in GeoOutcomes}

InitClassify ==
    /\ reports = <<>> /\ audit = <<>> /\ clock = 0
    /\ inp \in ClassifyInputs
    /\ out = Idle
    /\ hpc = <<>> /\ pend = <<>> /\ cache = NoCache /\ columns = ReportsColumns

RunHarvester == out = Idle /\ HarvestItem(inp)

\* the processor is called on the text of a document
RunProcessor == out = Idle /\ inp.item.dict /\ ProcessReport(inp)

NextClassify == RunHarvester \/ RunProcessor

SpecClassify == InitClassify /\ [][NextClassify]_vars

(***************************************************************************)
(* Spec: ingestion calls one after the other on one table, through the     *)
(* harvester and through the processor                                     *)
(***************************************************************************)

\* bound on the rows of the table
MaxRows == 3

NoInput == [op |-> "none"]

KidnappingAnswer ==
    [kind |-> "object", payload |-> Payload("\"kidnapping\"", "\"Delmas\"", "5"), wrap |-> "raw"]

FailedAnswer == [kind |-> "error", payload |-> <<>>, wrap |-> "raw"]

PipelineInputs ==
    {Input(item, first, "error", "ok", db) :
        item \in {ItemAttack, ItemCayes, ItemSud}, first \in {KidnappingAnswer, FailedAnswer},
        db \in {"ok", "fail"}}

Init ==
    /\ reports = <<>> /\ audit = <<>> /\ clock = 0
    /\ inp = NoInput
    /\ out = Idle
    /\ hpc = <<>> /\ pend = <<>> /\ cache = NoCache /\ columns = ReportsColumns

\* the harvester loop reaches one more item
Harvest == Len(reports) < MaxRows /\ \E i \in PipelineInputs : HarvestItem(i)

\* process_and_store_report is called once more
Process == Len(reports) < MaxRows /\ \E i \in PipelineInputs : ProcessReport(i)

Next == Harvest \/ Process

Spec == Init /\ [][Next]_vars

(***************************************************************************)
(* SpecHarvester: one harvester process alone, item after item             *)
(***************************************************************************)

SpecHarvester == Init /\ [][Harvest]_vars

(***************************************************************************)
(* SpecConcurrent: several harvester processes storing records into the    *)
(* same table.  A process runs the SELECT of store_content and its INSERT  *)
(* as two statements; SQLite serialises the statements, not the pair.      *)
(***************************************************************************)

\* number of harvester processes
NumHarvesters == 2

Procs == 1..NumHarvesters

\* the records process_single_item hands to store_content
HarvestedRecords ==
    {r \in {process_single_item(extract_content_text(i.item), AnswerOf(i.first), i.geo).rec :
               i \in PipelineInputs} : r.k = "record"}

InitConcurrent ==
    /\ reports = <<>> /\ audit = <<>> /\ clock = 0
    /\ inp = NoInput
    /\ out = Idle
    /\ hpc = [p \in Procs |-> "idle"]
    /\ pend = [p \in Procs |-> NoRecord]
    /\ cache = NoCache /\ columns = ReportsColumns

\* harvester.py 293-298 in process p, for the record rec: the look-up of the URL
Lookup(p) ==
    /\ hpc[p] = "idle"
    /\ \E rec \in HarvestedRecords :
          /\ inp' = rec
          /\ IF IsDuplicate(reports, rec)
             THEN /\ out' = [op |-> "store", by |-> p, ret |-> FALSE]
                  /\ UNCHANGED <<hpc, pend, columns>>
             ELSE /\ out' = [op |-> "lookup", by |-> p, ret |-> FALSE]
                  /\ hpc' = [hpc EXCEPT ![p] = "checked"]
                  /\ pend' = [pend EXCEPT ![p] = [rec |-> rec, seen |-> Len(reports)]]
    /\ UNCHANGED <<reports, audit, clock, cache, columns>>

\* harvester.py 300-322 in process p: the INSERT of the record it looked up
Insert(p) ==
    /\ hpc[p] = "checked"
    /\ Len(reports) < MaxRows
    /\ reports' = Append(reports, HarvesterRow(pend[p].rec, clock))
    /\ audit' = Append(audit, [by |-> p, seen |-> pend[p].seen])
    /\ clock' = clock + 1
    /\ hpc' = [hpc EXCEPT ![p] = "idle"]
    /\ pend' = [pend EXCEPT ![p] = NoRecord]
    /\ out' = [op |-> "store", by |-> p, ret |-> TRUE]
    /\ UNCHANGED <<inp, cache, columns>>

Lookups == \E p \in Procs : Lookup(p)

Inserts == \E p \in Procs : Insert(p)

NextConcurrent == Lookups \/ Inserts

SpecConcurrent == InitConcurrent /\ [][NextConcurrent]_vars

(***************************************************************************)
(* SpecBatch: one run of harvest_all_content, content type after content   *)
(* type and item after item, while process_and_store_report is called on   *)
(* the same table                                                          *)
(***************************************************************************)

\* harvester.py 24-29: the content types in the order the loop takes them
content_types == <<"reports", "disasters", "blog", "references">>

NullLocationAnswer ==
    [kind |-> "object", payload |-> Payload("\"kidnapping\"", "null", "5"), wrap |-> "raw"]

\* the items an API answer is made of, each with what its processing meets
BatchInputs ==
    { Input(ItemAttack, KidnappingAnswer, "error", "ok", "ok"),
      Input(ItemAttack, FailedAnswer, "error", "none", "ok"),
      Input(ItemSud, KidnappingAnswer, "error", "raise", "fail"),
      Input(ItemSud, NullLocationAnswer, "error", "ok", "ok"),
      Input(NotADict, KidnappingAnswer, "error", "ok", "ok") }

\* bound on the items of one API answer
MaxFetched == 2

RECURSIVE ItemLists(_)
ItemLists(n) ==
    IF n = 0 THEN {<<>>}
    ELSE ItemLists(n - 1)
         \cup {Append(l, i) : l \in {x \in ItemLists(n - 1) : Len(x) = n - 1},
                              i \in BatchInputs}

\* what the request of get_haiti_content meets: an exception (connection,
\* HTTP status, body that is no JSON object) or the list under "data"
FetchOutcomes ==
    {[ok |-> FALSE, data |-> <<>>]} \cup {[ok |-> TRUE, data |-> l] : l \in ItemLists(MaxFetched)}

\* harvester.get_haiti_content: the items returned
get_haiti_content(fetched) == IF fetched.ok THEN fetched.data ELSE <<>>

\* the item as extract_content_text is given it, with the content type
OfType(i, content_type) == [i EXCEPT !.item.content_type = content_type]

InitBatch ==
    /\ reports = <<>> /\ audit = <<>> /\ clock = 0
    /\ inp = NoInput
    /\ out = Idle
    /\ hpc = [at |-> "type", type |-> 1, item |-> 0, total_items |-> 0]
    /\ pend = <<>> /\ cache = NoCache /\ columns = ReportsColumns

\* harvester.py 379-393: the loop reaches a content type, skips disasters,
\* fetches the items and skips the type when there is none
Fetched(ok, content_items) ==
    /\ pend' = content_items
    /\ hpc' = IF content_items = <<>>
              THEN [hpc EXCEPT !.type = @ + 1]
              ELSE [hpc EXCEPT !.at = "items", !.item = 1]
    /\ out' = [op |-> "fetch", k |-> content_types[hpc.type], ok |-> ok,
               n |-> Len(content_items)]
    /\ UNCHANGED <<reports, audit, clock, inp, cache, columns>>

FetchContent ==
    /\ hpc.at = "type" /\ hpc.type <= Len(content_types)
    /\ IF content_types[hpc.type] = "disasters"
       THEN /\ hpc' = [hpc EXCEPT !.type = @ + 1]
            /\ out' = [op |-> "fetch", k |-> "disasters", ok |-> TRUE, n |-> 0]
            /\ UNCHANGED <<reports, audit, clock, inp, pend, cache, columns>>
       ELSE \E fetched \in FetchOutcomes : Fetched(fetched.ok, get_haiti_content(fetched))

\* faulty variant of the loop: an exception in the processing of an item
\* leaves harvest_all_content
AbortOnError(pos, n, k) ==
    IF k = "raise" THEN [pos EXCEPT !.at = "end"]
    ELSE [pos EXCEPT !.total_items = @ + 1,
                     !.at = IF pos.item = n THEN "type" ELSE "items",
                     !.type = IF pos.item = n THEN @ + 1 ELSE @,
                     !.item = IF pos.item = n THEN 0 ELSE @ + 1]

\* harvester.py 396-423: where the loop stands after the item at pos of n
\* items, whose processing ended as k; an item that raised is not counted
Advance(pos, n, k) ==
    [pos EXCEPT !.total_items = IF k = "raise" THEN @ ELSE @ + 1,
                !.at = IF pos.item = n THEN "type" ELSE "items",
                !.type = IF pos.item = n THEN @ + 1 ELSE @,
                !.item = IF pos.item = n THEN 0 ELSE @ + 1]

\* harvester.py 396-423: one iteration of the item loop; an exception that
\* leaves the processing of the item is caught and the loop goes on
AttemptItem ==
    /\ hpc.at = "items"
    /\ HarvestStep(OfType(pend[hpc.item], content_types[hpc.type]))
    /\ hpc' = Advance(hpc, Len(pend), out'.k)
    /\ UNCHANGED <<pend, cache, columns>>

\* harvester.py 435-457: the summary, after the last content type
PrintSummary ==
    /\ hpc.at = "type" /\ hpc.type > Len(content_types)
    /\ hpc' = [hpc EXCEPT !.at = "end"]
    /\ out' = [op |-> "summary", k |-> "summary", items |-> hpc.total_items,
               stored |-> Cardinality({n \in 1..Len(audit) : audit[n].by = 0})]
    /\ UNCHANGED <<reports, audit, clock, inp, pend, cache, columns>>

\* the calls of process_and_store_report made between two content types of
\* the harvest, until one has stored its row
ManualInputs ==
    {Input(ItemCayes, KidnappingAnswer, "error", "ok", db) : db \in {"ok", "fail"}}

ProcessMeanwhile ==
    /\ hpc.at = "type" /\ Len(reports) < MaxRows
    /\ \A n \in 1..Len(reports) : reports[n].content_type # "manual"
    /\ \E i \in ManualInputs : ProcessReport(i)

NextBatch == FetchContent \/ AttemptItem \/ PrintSummary \/ ProcessMeanwhile

SpecBatch == InitBatch /\ [][NextBatch]_vars

(***************************************************************************)
(* Dashboard (src/dashboard.py): a run of the script loads the table       *)
(* through st.cache_data, reads the filter widgets, filters the frame and  *)
(* renders the metric cards.  Datetimes are instants counted in half days. *)
(***************************************************************************)

\* instants in one day: timedelta(days=1)
DayLen == 2

\* pandas NaT, and the datetime at instant i
NaT == [nat |-> TRUE, at |-> 0]

At(i) == [nat |-> FALSE, at |-> i]

\* NULL in the INTEGER column severity
NullSeverity == -1

\* the date texts that parse, with their instants
DateTexts ==
    << [text |-> "2024-03-01", at |-> 1 * DayLen],
       [text |-> "2024-03-02", at |-> 2 * DayLen],
       [text |-> "2024-03-02T12:00:00+00:00", at |-> 2 * DayLen + 1],
       [text |-> "2024-03-03", at |-> 3 * DayLen],
       [text |-> "2024-03-04", at |-> 4 * DayLen],
       [text |-> "2024-03-05", at |-> 5 * DayLen],
       [text |-> "2024-03-06", at |-> 6 * DayLen],
       [text |-> "2024-03-07", at |-> 7 * DayLen] >>

\* the instant of datetime.now() at tick n of the clock: noon of March 8th,
\* then one instant per tick
NowAt(n) == 8 * DayLen + 1 + n

\* the ticks whose isoformat text the table can hold
Ticks == 0..(MaxRows + 1)

\* pd.to_datetime(text, errors="coerce") of one value
pd_to_datetime(text) ==
    IF \E k \in 1..Len(DateTexts) : DateTexts[k].text = text
    THEN At(DateTexts[CHOOSE k \in 1..Len(DateTexts) : DateTexts[k].text = text].at)
    ELSE IF \E n \in Ticks : Timestamp(n) = text
    THEN At(NowAt(CHOOSE n \in Ticks : Timestamp(n) = text))
    ELSE NaT

\* the timestamp texts in the order of their text comparison
TimestampOrder == <<"T0", "T1", "T2", "T3", "T4", "T5", "n/a">>

TimestampRank(text) ==
    IF \E k \in 1..Len(TimestampOrder) : TimestampOrder[k] = text
    THEN CHOOSE k \in 1..Len(TimestampOrder) : TimestampOrder[k] = text
    ELSE 0

\* rows without the k-th
Remove(rows, k) == SubSeq(rows, 1, k - 1) \o SubSeq(rows, k + 1, Len(rows))

\* the first row with the greatest timestamp text
Latest(rows) ==
    CHOOSE k \in 1..Len(rows) :
        \A j \in 1..Len(rows) :
            \/ TimestampRank(rows[j].timestamp) < TimestampRank(rows[k].timestamp)
            \/ TimestampRank(rows[j].timestamp) = TimestampRank(rows[k].timestamp) /\ k <= j

\* SELECT * FROM reports ORDER BY timestamp DESC
RECURSIVE OrderByTimestampDesc(_)
OrderByTimestampDesc(rows) ==
    IF rows = <<>> THEN <<>>
    ELSE <<rows[Latest(rows)]>> \o OrderByTimestampDesc(Remove(rows, Latest(rows)))

\* dashboard.py 31-33: the two date columns parsed
ParseDates(rows) ==
    [k \in 1..Len(rows) |->
        [rows[k] EXCEPT !.created_date = pd_to_datetime(@),
                        !.timestamp = pd_to_datetime(@)]]

\* dashboard.load_crisis_data; db is "fail" when the query raises
load_crisis_data(table, db) ==
    IF db # "ok" THEN <<>> ELSE ParseDates(OrderByTimestampDesc(table))

\* created_date.fillna(timestamp) of one row
EffectiveDate(r) == IF r.created_date.nat THEN r.timestamp ELSE r.created_date

\* df[column].dropna().unique()
EventOptions(df) == {df[k].event_type : k \in 1..Len(df)} \ {NULL}

AreaOptions(df) == {df[k].location_text : k \in 1..Len(df)} \ {NULL}

\* the instants of the effective dates that parse
DateCol(df) ==
    {EffectiveDate(df[k]).at : k \in {j \in 1..Len(df) : ~EffectiveDate(df[j]).nat}}

Min(S) == CHOOSE x \in S : \A y \in S : x <= y

Max(S) == CHOOSE x \in S : \A y \in S : y <= x

\* .date() of an instant
DateOf(i) == i \div DayLen

\* dashboard.py 165-181: the default of the date range widget
DefaultDateRange(dates, now) ==
    IF dates # {} THEN <<DateOf(Min(dates)), DateOf(Max(dates))>>
    ELSE <<DateOf(NowAt(now)) - 30, DateOf(NowAt(now))>>

\* dashboard.py 145-181: the widgets as the first run of a session finds them
DefaultWidgets(df, now) ==
    [event_types |-> EventOptions(df), severity |-> <<1, 5>>,
     areas |-> AreaOptions(df), conflict_only |-> TRUE,
     date_range |-> DefaultDateRange(DateCol(df), now)]

conflict_set ==
    {"violence", "kidnapping", "sexual_violence", "displacement", "protest",
     "looting", "roadblock"}

\* dashboard.py 184-187
BySeverity(r, w) ==
    r.severity # NullSeverity /\ r.severity >= w.severity[1] /\ r.severity <= w.severity[2]

\* faulty variant of ByEventType: an empty selection selects no row
EmptySelectsNone(r, w) == r.event_type \in w.event_types

\* dashboard.py 189-190
ByEventType(r, w) == w.event_types # {} => r.event_type \in w.event_types

\* dashboard.py 192-193
ByArea(r, w) == w.areas # {} => r.location_text \in w.areas

\* faulty variant of ByConflict: the checkbox is not looked at
ConflictIgnored(r, w) == TRUE

\* dashboard.py 195-200
ByConflict(r, w) == w.conflict_only => r.event_type \in conflict_set

\* the faulty variant of the date test: the end instant is included
InRangeClosed(eff, start_date, end_date) ==
    ~eff.nat /\ eff.at >= start_date /\ eff.at <= end_date

\* dashboard.py 208: effective_date >= start_date and effective_date < end_date
InRange(eff, start_date, end_date) ==
    ~eff.nat /\ eff.at >= start_date /\ eff.at < end_date

\* dashboard.py 202-208
ByDate(r, w) ==
    Len(w.date_range) = 2
        => InRange(EffectiveDate(r), w.date_range[1] * DayLen,
                   (w.date_range[2] + 1) * DayLen)

\* filtered = filtered[mask]: the rows of the frame that pass one test
Mask(rows, Test(_, _), w) == SelectSeq(rows, LAMBDA r : Test(r, w))

\* dashboard.py 184-208: the filtered frame, one mask after the other in the
\* order of the script
Filtered(df, w) ==
    Mask(Mask(Mask(Mask(Mask(df, BySeverity, w), ByEventType, w), ByArea, w),
              ByConflict, w), ByDate, w)

\* the sum of the severities that are not null
RECURSIVE SeveritySum(_)
SeveritySum(rows) ==
    IF rows = <<>> THEN 0
    ELSE (IF Head(rows).severity = NullSeverity THEN 0 ELSE Head(rows).severity)
         + SeveritySum(Tail(rows))

SeverityCount(rows) ==
    Cardinality({k \in 1..Len(rows) : rows[k].severity # NullSeverity})

\* f"{sum / count:.2f}" as a number of hundredths
Hundredths(sum, count) == (200 * sum + count) \div (2 * count)

\* Series.mean() of the severity column, formatted
MeanSeverity(rows) ==
    IF SeverityCount(rows) = 0 THEN 0
    ELSE Hundredths(SeveritySum(rows), SeverityCount(rows))

\* dashboard.py 259-334: the metric cards and the download of the filtered frame
Rendered(w, filtered) ==
    [op |-> "dashboard", k |-> "rendered", widgets |-> w, filtered |-> filtered,
     total |-> Len(filtered),
     zones |-> Cardinality({filtered[k].location_text : k \in 1..Len(filtered)} \ {NULL}),
     avg |-> MeanSeverity(filtered),
     critical |-> Cardinality({k \in 1..Len(filtered) : filtered[k].severity >= 4}),
     downloaded |-> FALSE]

\* no widget was built
NoWidgets == [op |-> "none"]

\* faulty variant of RunScript: the script does not stop on an empty frame
NeverStops(df, w) == {Rendered(w, Filtered(df, w))}

\* dashboard.py 51-53: the blocking message
Stopped == [op |-> "dashboard", k |-> "stopped"]

\* the run ended in an exception shown on the page
Crashed == [op |-> "dashboard", k |-> "error"]

\* One run of the script on the frame df with the widgets w.  A severity
\* column in which every value is NULL is read as a column of objects, on
\* which the comparison of dashboard.py 185 raises in some versions of pandas
\* and selects no row in others.
RunScript(df, w) ==
    IF df = <<>> THEN {Stopped}
    ELSE IF SeverityCount(df) = 0 THEN {Crashed, Rendered(w, Filtered(df, w))}
    ELSE {Rendered(w, Filtered(df, w))}

\* the widgets a run leaves behind: a run that stopped at dashboard.py 53
\* built none
WidgetsOf(df, w) == IF df = <<>> THEN NoWidgets ELSE w

\* the frame a run gets from the cached load_crisis_data
CachedFrame(db) ==
    IF cache.k = "none" THEN load_crisis_data(reports, db) ELSE cache.df

\* the first run of a session: every widget at its default
FirstRun(df) ==
    /\ cache' = [k |-> "df", df |-> df]
    /\ inp' = WidgetsOf(df, DefaultWidgets(df, clock))
    /\ out' \in RunScript(df, DefaultWidgets(df, clock))
    /\ UNCHANGED <<reports, audit, clock, hpc, pend, columns>>

OpenDashboard == out.op # "dashboard" /\ \E db \in {"ok", "fail"} : FirstRun(CachedFrame(db))

\* the states one widget can be set to
SeverityRanges == {<<1, 5>>, <<2, 4>>}

FilterDays == 2..3

DateRanges ==
    {<<a>> : a \in FilterDays} \cup {<<a, b>> : a \in FilterDays, b \in FilterDays}

Selections(options) == {options, {}} \cup {{o} : o \in options}

\* the widget states that differ from w in one widget
OneWidgetChanged(df, w) ==
    ({[w EXCEPT !.event_types = s] : s \in Selections(EventOptions(df))}
     \cup {[w EXCEPT !.severity = s] : s \in SeverityRanges}
     \cup {[w EXCEPT !.areas = s] : s \in Selections(AreaOptions(df))}
     \cup {[w EXCEPT !.conflict_only = ~w.conflict_only]}
     \cup {[w EXCEPT !.date_range = d] :
              d \in {x \in DateRanges : Len(x) = 2 => x[1] <= x[2]}
                    \cup {DefaultDateRange(DateCol(df), clock)}})
    \ {w}

\* the user changes one widget and the script runs again on the cached frame
ChangeFilter ==
    /\ out.op = "dashboard" /\ out.k = "rendered" /\ cache.k = "df"
    /\ \E w \in OneWidgetChanged(cache.df, inp) :
          /\ inp' = w
          /\ out' \in RunScript(cache.df, w)
    /\ UNCHANGED <<reports, audit, clock, hpc, pend, cache, columns>>

\* the widgets after the frame was loaded again: a widget whose options or
\* default changed is built anew
WidgetsAfterReload(old, df, w) ==
    IF old.k = "df" /\ old.df # <<>> /\ DefaultWidgets(old.df, clock) = DefaultWidgets(df, clock)
       /\ out.k = "rendered"
    THEN w ELSE DefaultWidgets(df, clock)

Reloaded(df, w) ==
    /\ cache' = [k |-> "df", df |-> df]
    /\ inp' = WidgetsOf(df, w)
    /\ out' \in RunScript(df, w)
    /\ UNCHANGED <<reports, audit, clock, hpc, pend, columns>>

\* dashboard.py 45-47: the Refresh button clears the cache and runs the script
RefreshData ==
    /\ out.op = "dashboard"
    /\ \E db \in {"ok", "fail"} :
          Reloaded(load_crisis_data(reports, db),
                   WidgetsAfterReload(cache, load_crisis_data(reports, db), inp))

\* dashboard.py 332-337: the download button hands out the filtered frame
DownloadCsv ==
    /\ out.op = "dashboard" /\ out.k = "rendered"
    /\ out' = [out EXCEPT !.downloaded = TRUE]
    /\ UNCHANGED <<reports, audit, clock, inp, hpc, pend, cache, columns>>

\* a row of the table as an earlier version of the schema or another writer
\* left it
StoredRow(event_type, location_text, severity, created_date, timestamp) ==
    [timestamp |-> timestamp, raw_text |-> "Report", title |-> "Report",
     event_type |-> event_type, location_text |-> location_text,
     location_coords |-> NULL, latitude |-> NULL, longitude |-> NULL,
     location_metadata |-> NULL, source_name |-> NULL, content_type |-> NULL,
     severity |-> severity, report_url |-> NULL, created_date |-> created_date]

DashRows ==
    << StoredRow("violence", "Delmas", 4, "2024-03-01", "T0"),
       StoredRow("kidnapping", "Cite Soleil", 5, "", "T1"),
       StoredRow("other", "", 3, "2024-03-03", "T2"),
       StoredRow("protest", "Delmas", 2, "2024-03-02T12:00:00+00:00", "T1"),
       StoredRow("violence", NULL, 2, "2024-03-02", "T0"),
       StoredRow("protest", "Delmas", NullSeverity, "2024-03-02", "T1"),
       StoredRow("violence", "Jacmel", 1, "n/a", "n/a"),
       StoredRow(NULL, "Delmas", 3, NULL, "T2") >>

\* bound on the rows of the table the dashboard is opened on
MaxDashRows == 2

\* the choices of at most n rows, each written as the rising sequence of the
\* rows' positions in DashRows
RECURSIVE Choices(_)
Choices(n) ==
    IF n = 0 THEN {<<>>}
    ELSE Choices(n - 1)
         \cup {Append(c, j) : c \in {x \in Choices(n - 1) : Len(x) = n - 1},
                              j \in 1..Len(DashRows)}

Rising(c) == \A k \in 1..(Len(c) - 1) : c[k] <= c[k + 1]

\* the tables the dashboard is opened on
DashTables ==
    {[k \in 1..Len(c) |-> DashRows[c[k]]] : c \in {x \in Choices(MaxDashRows) : Rising(x)}}

InitDashboard ==
    /\ reports \in DashTables
    /\ audit = <<>> /\ clock = 0
    /\ inp = NoInput
    /\ out = Idle
    /\ hpc = <<>> /\ pend = <<>> /\ cache = NoCache /\ columns = ReportsColumns

NextDashboard == OpenDashboard \/ ChangeFilter \/ RefreshData \/ DownloadCsv

SpecDashboard == InitDashboard /\ [][NextDashboard]_vars

(***************************************************************************)
(* SpecMigrate: the column additions of database.migrate_reports_table and *)
(* of harvester.store_content on a reports table of an earlier schema      *)
(***************************************************************************)

\* database.py 46-62: new_columns, in the order of the dict
new_columns ==
    << "title", "location_coords", "specific_type", "broad_category", "latitude",
       "longitude", "location_metadata", "displaced_people", "schools_closed",
       "children_recruited", "source_name", "content_type", "severity", "report_url",
       "created_date" >>

\* harvester.py 282-288: the columns of the ALTER TABLE statements, in order
alter_block ==
    << "source_name", "content_type", "severity", "title", "report_url", "created_date",
       "location_coords" >>

\* harvester.py 301-305: the columns the INSERT names
insert_columns ==
    {"timestamp", "raw_text", "title", "event_type", "location_text", "location_coords",
     "source_name", "content_type", "severity", "report_url", "created_date"}

Range(seq) == {seq[k] : k \in 1..Len(seq)}

\* the columns of the table before any column was added
BaseColumns == ReportsColumns \ Range(new_columns)

Table(cols, rows) == [columns |-> cols, rows |-> rows]

\* ALTER TABLE reports ADD COLUMN col on a table without it: every stored row
\* reads NULL in the new column
AddColumn(table, col) ==
    Table(table.columns \cup {col},
          [n \in 1..Len(table.rows) |-> table.rows[n] @@ (col :> NULL)])

RECURSIVE MigrateFrom(_, _)
\* database.py 64-69: the statements from the k-th on, each in its own try;
\* a column that exists raises sqlite3.OperationalError, which is passed over
MigrateFrom(table, k) ==
    IF k > Len(new_columns) THEN table
    ELSE IF new_columns[k] \in table.columns THEN MigrateFrom(table, k + 1)
    ELSE MigrateFrom(AddColumn(table, new_columns[k]), k + 1)

\* database.migrate_reports_table
migrate_reports_table(table) == MigrateFrom(table, 1)

RECURSIVE AlterFrom(_, _)
\* harvester.py 281-291: the statements from the k-th on, all in one try; the
\* first column that exists raises sqlite3.OperationalError and ends the block
AlterFrom(table, k) ==
    IF k > Len(alter_block) THEN table
    ELSE IF alter_block[k] \in table.columns THEN table
    ELSE AlterFrom(AddColumn(table, alter_block[k]), k + 1)

\* the row an INSERT of the harvester's values makes in a table of these columns
RowOn(cols, values) ==
    [c \in cols |-> IF c \in DOMAIN values THEN values[c] ELSE NULL]

\* harvester.py 293-326 on the table the ALTER block left: the SELECT or the
\* INSERT raises when a column it names is missing, and False is returned
StoreAfterAlter(table, rec, now) ==
    IF rec.url # "" /\ "report_url" \notin table.columns
    THEN [table |-> table, ret |-> FALSE]
    ELSE IF rec.url # "" /\ \E n \in 1..Len(table.rows) : table.rows[n].report_url = rec.url
    THEN [table |-> table, ret |-> FALSE]
    ELSE IF ~(insert_columns \subseteq table.columns)
    THEN [table |-> table, ret |-> FALSE]
    ELSE [table |-> Table(table.columns,
                          Append(table.rows, RowOn(table.columns, HarvesterRow(rec, now)))),
          ret |-> TRUE]

\* harvester.store_content on a table of any schema
StoreOnSchema(table, rec, now) == StoreAfterAlter(AlterFrom(table, 1), rec, now)

\* the columns of harvester.py 282-288 that the table has from the start, with
\* all or none of the other columns of new_columns
StartSchemas ==
    {BaseColumns \cup had \cup rest :
        had \in SUBSET Range(alter_block),
        rest \in {{}, Range(new_columns) \ Range(alter_block)}}

\* a row stored under the starting schema
OldRow(cols) == [c \in cols |-> "old"]

InitMigrate ==
    /\ columns \in StartSchemas
    /\ reports = <<OldRow(columns)>>
    /\ inp = [op |-> "schema", columns |-> columns]
    /\ audit = <<>> /\ clock = 0 /\ out = Idle
    /\ hpc = <<>> /\ pend = <<>> /\ cache = NoCache

Migrated(by, r) ==
    /\ columns' = r.table.columns
    /\ reports' = r.table.rows
    /\ clock' = IF r.ret THEN clock + 1 ELSE clock
    /\ out' = [op |-> "migrate", k |-> by, ret |-> r.ret, before |-> columns]

\* python database.py: migrate_reports_table()
MigrateReportsTable ==
    /\ Migrated("database", [table |-> migrate_reports_table(Table(columns, reports)),
                             ret |-> FALSE])
    /\ UNCHANGED <<inp, audit, hpc, pend, cache>>

\* the record of the harvester's call
MigrateRecord == CHOOSE rec \in HarvestedRecords : rec.url # ""

\* harvester.store_content(processed_data) on the table as it is
StoreContent ==
    /\ Migrated("harvester", StoreOnSchema(Table(columns, reports), MigrateRecord, clock))
    /\ UNCHANGED <<inp, audit, hpc, pend, cache>>

NextMigrate == MigrateReportsTable \/ StoreContent

SpecMigrate == InitMigrate /\ [][NextMigrate]_vars

(***************************************************************************)
(* SpecForecast: the forecast section of the dashboard script on the daily *)
(* counts of a filtered frame                                              *)
(***************************************************************************)

\* dashboard.py 565: len(filtered) > 30
ForecastThreshold == 30

\* dashboard.py 572: rolling(window=7, min_periods=1)
Window == 7

\* dashboard.py 575: range(last_day + 1, last_day + 31)
Horizon == 30

\* bound on the days of the filtered frame that hold rows
MaxDays == 9

\* the rows one day can hold
DayCounts == {1, 4}

\* the day before the last day that holds rows may be followed by days without rows
Gaps == {0, 2}

\* daily_counts of a filtered frame: for every day since the first that holds
\* rows, the day's number and its count, in the order of the days
DailyFrames ==
    UNION {{[k \in 1..m |-> [day |-> IF k = m /\ m > 1 THEN k - 1 + gap ELSE k - 1,
                             count |-> c[k]]] :
               c \in [1..m -> DayCounts], gap \in Gaps} : m \in 1..MaxDays}

RECURSIVE SumCounts(_, _, _)
\* the sum of the counts of the rows a..b of daily
SumCounts(daily, a, b) ==
    IF a > b THEN 0 ELSE daily[a].count + SumCounts(daily, a + 1, b)

\* len(filtered)
FrameLen(daily) == SumCounts(daily, 1, Len(daily))

\* daily_counts['ma_7'].iloc[-1]: the mean of the last seven counts, or of all
\* of them when there are fewer, as the fraction sum / over
LastAverage(daily) ==
    LET first == IF Len(daily) > Window THEN Len(daily) - Window + 1 ELSE 1
    IN  [sum |-> SumCounts(daily, first, Len(daily)), over |-> Len(daily) - first + 1]

\* dashboard.py 565-623: future_days, or the message that data is insufficient
Forecast(daily) ==
    IF FrameLen(daily) > ForecastThreshold
    THEN [k |-> "forecast",
          future_days |-> [j \in 1..Horizon |->
                              [days_since_start |-> daily[Len(daily)].day + j,
                               ma_7 |-> LastAverage(daily)]]]
    ELSE [k |-> "insufficient"]

InitForecast ==
    /\ reports = <<>> /\ audit = <<>> /\ clock = 0
    /\ inp \in [op : {"daily"}, daily : DailyFrames]
    /\ out = Idle
    /\ hpc = <<>> /\ pend = <<>> /\ cache = NoCache /\ columns = ReportsColumns

\* the forecast section runs on the filtered frame
RunForecast ==
    /\ out = Idle
    /\ out' = [op |-> "forecast", res |-> Forecast(inp.daily)]
    /\ UNCHANGED <<reports, audit, clock, inp, hpc, pend, cache, columns>>

SpecForecast == InitForecast /\ [][RunForecast]_vars

(***************************************************************************)
(* SpecGazetteer: processor.find_specific_haiti_location on texts that     *)
(* name no, one or two places                                              *)
(***************************************************************************)

\* spellings of places as a text may hold them, "" for none
Mentions ==
    {"", "Cite Soleil", "SOLEIL", "Delmas", "la saline", "Village de Dieu", "Kenscoff",
     "Croix des Bouquets", "CAP-HAITIEN", "Le Cap", "Cayes", "Jeremie", "Wharf Jeremie",
     "Port au Prince", "Tokyo"}

LookupTexts == {"Clashes near " \o a \o " and " \o b : a \in Mentions, b \in Mentions}

InitGazetteer ==
    /\ reports = <<>> /\ audit = <<>> /\ clock = 0
    /\ inp \in [op : {"text"}, text : LookupTexts]
    /\ out = Idle
    /\ hpc = <<>> /\ pend = <<>> /\ cache = NoCache /\ columns = ReportsColumns

\* find_specific_haiti_location(text)
RunLookup ==
    /\ out = Idle
    /\ out' = [op |-> "lookup", res |-> find_specific_haiti_location(inp.text)]
    /\ UNCHANGED <<reports, audit, clock, inp, hpc, pend, cache, columns>>

SpecGazetteer == InitGazetteer /\ [][RunLookup]_vars

(***************************************************************************)
(* SpecMetrics: dashboard.gemini_extract_metrics(text, threshold=1000) on  *)
(* report texts and answers of the LLM.  A text is its lines, a line its   *)
(* words and numbers in order.                                             *)
(***************************************************************************)

\* threshold=1000 of gemini_extract_metrics
DefaultThreshold == 1000

Num(n)   == [t |-> "num", n |-> n]
Word(w)  == [t |-> "word", w |-> w]

\* the word begins with the prefix, case ignored (re.IGNORECASE)
Begins(word, prefix) ==
    Len(word) >= Len(prefix) /\ Lower(SubSeq(word, 1, Len(prefix))) = prefix

\* dashboard.py 77: the line matches ^\s*Total (killed|injured|kidnapped)
IsSummaryLine(line) ==
    /\ Len(line) >= 2
    /\ line[1].t = "word" /\ Lower(line[1].w) = "total"
    /\ line[2].t = "word"
    /\ \E x \in {"killed", "injured", "kidnapped"} : Begins(line[2].w, x)

RECURSIVE Flatten(_)
\* "\n".join(lines): the words and numbers of the lines in one sequence
Flatten(lines) == IF lines = <<>> THEN <<>> ELSE Head(lines) \o Flatten(Tail(lines))

\* dashboard.py 75-79: incident_text, the text without its summary lines
IncidentText(lines) == Flatten(SelectSeq(lines, LAMBDA l : ~IsSummaryLine(l)))

\* re.findall(r'(\d+)\s+(?:what)', incident_text, re.IGNORECASE): the numbers
\* that white space (a line break included) separates from a word beginning
\* with what, in order
FindAll(what, tokens) ==
    LET at == SelectSeq([k \in 1..Len(tokens) |-> k],
                        LAMBDA k : /\ k < Len(tokens)
                                   /\ tokens[k].t = "num"
                                   /\ tokens[k + 1].t = "word"
                                   /\ Begins(tokens[k + 1].w, what))
    IN  [j \in 1..Len(at) |-> tokens[at[j]].n]

RECURSIVE SumUpTo(_, _)
\* sum([int(x) for x in matches if int(x) <= threshold]), 0 without matches
SumUpTo(matches, threshold) ==
    IF matches = <<>> THEN 0
    ELSE (IF Head(matches) <= threshold THEN Head(matches) ELSE 0)
         + SumUpTo(Tail(matches), threshold)

Pair(killed, injured) == [killed |-> killed, injured |-> injured]

\* dashboard.py 105-110: the regex fallback
RegexFallback(tokens, threshold) ==
    Pair(SumUpTo(FindAll("killed", tokens), threshold),
         SumUpTo(FindAll("injured", tokens), threshold))

\* str(v).isdigit() for the values the answers hold
IsDigitText(v) ==
    \/ v.t = "int" /\ v.i >= 0
    \/ v.t = "str" /\ v.s \in {"0", "7", "1200"}

\* int(v) for a value whose text is digits
IntOfDigits(v) ==
    IF v.t = "int" THEN v.i
    ELSE CASE v.s = "0" -> 0 [] v.s = "7" -> 7 [] v.s = "1200" -> 1200

\* dashboard.py 100-104: int(v) if str(v).isdigit() else 0, then 0 above the threshold
CountOf(v, threshold) ==
    IF ~IsDigitText(v) THEN 0
    ELSE IF IntOfDigits(v) <= threshold THEN IntOfDigits(v) ELSE 0

\* dashboard.py 98-104: metrics is what json.loads returned
FromJson(metrics, tokens, threshold) ==
    IF metrics.t # "dict" THEN RegexFallback(tokens, threshold)  \* no .get, or no JSON
    ELSE Pair(CountOf(DictGet(metrics.d, "killed", JInt(0)), threshold),
              CountOf(DictGet(metrics.d, "injured", JInt(0)), threshold))

\* dashboard.gemini_extract_metrics: llm is what generate_content does, ok with
\* the value json.loads gives for its text, or not ok when it raises
gemini_extract_metrics(lines, llm, threshold) ==
    IF ~llm.ok THEN Pair(0, 0)
    ELSE FromJson(llm.loaded, IncidentText(lines), threshold)

MetricsOf(killed, injured) == JDict([killed |-> killed, injured |-> injured])

\* the values an answer holds for a count
CountValues ==
    {JInt(5), JInt(1000), JInt(1001), JInt(-3), JStr("7"), JStr("1200"), JStr("many"),
     JFloat("2.5"), JBool(TRUE), JNull}

\* what the LLM does: it raises, or answers an object with both counts, an
\* object without them, an array, or a text that is no JSON
MetricAnswers ==
    {[ok |-> FALSE, loaded |-> JError]}
    \cup {[ok |-> TRUE, loaded |-> MetricsOf(v, JInt(2))] : v \in CountValues}
    \cup {[ok |-> TRUE, loaded |-> MetricsOf(JInt(2), v)] : v \in CountValues}
    \cup {[ok |-> TRUE, loaded |-> x] : x \in {JDict(<<>>), JList(<<>>), JError}}

ReportLines ==
    { <<Num(600), Word("killed"), Word("in"), Word("Delmas")>>,
      <<Num(700), Word("KILLED"), Word("and"), Num(900), Word("injured")>>,
      <<Word("Total"), Word("killed:"), Num(1300), Word("killed")>>,
      <<Num(1001), Word("killed"), Num(300), Word("injured.")>>,
      <<Word("Calm"), Word("day"), Num(12)>>,
      <<Word("injured"), Word("and"), Num(2), Word("kidnapped")>> }

\* bound on the lines of a report text
MaxLines == 2

ReportTexts == UNION {[1..n -> ReportLines] : n \in 0..MaxLines}

InitMetrics ==
    /\ reports = <<>> /\ audit = <<>> /\ clock = 0
    /\ inp \in [op : {"metrics"}, lines : ReportTexts, llm : MetricAnswers]
    /\ out = Idle
    /\ hpc = <<>> /\ pend = <<>> /\ cache = NoCache /\ columns = ReportsColumns

\* dashboard.py 117-120: gemini_extract_metrics(x, threshold=1000) on one raw_text
ExtractMetrics ==
    /\ out = Idle
    /\ out' = [op |-> "metrics",
               res |-> gemini_extract_metrics(inp.lines, inp.llm, DefaultThreshold)]
    /\ UNCHANGED <<reports, audit, clock, inp, hpc, pend, cache, columns>>

SpecMetrics == InitMetrics /\ [][ExtractMetrics]_vars

(***************************************************************************)
(* SpecRetry: process_with_gemini_pro(raw_text, retries) against every     *)
(* script of answers of the LLM                                            *)
(***************************************************************************)

\* what one call of the LLM does: an object, an array of one object, an empty
\* array, a JSON number, a text that is no JSON, or an exception
RetryScript ==
    { GoodAnswer, Answer(Wrap("array", ObjectText(GoodPayload))), Answer("[]"),
      Answer("5"), Answer("I cannot classify this text."), LlmError }

RetryInputs ==
    [op : {"retry"}, llms : [1..Retries -> RetryScript], retries : 1..Retries]

InitRetry ==
    /\ reports = <<>> /\ audit = <<>> /\ clock = 0
    /\ inp \in RetryInputs
    /\ out = Idle
    /\ hpc = <<>> /\ pend = <<>> /\ cache = NoCache /\ columns = ReportsColumns

Returned(r) == out' = [op |-> "retry", res |-> r.res, calls |-> r.calls, sleeps |-> r.sleeps]

\* process_with_gemini_pro(raw_text, retries=inp.retries)
RunRetry ==
    /\ out = Idle
    /\ Returned(GeminiLoop(inp.llms, 1, inp.retries))
    /\ UNCHANGED <<reports, audit, clock, inp, hpc, pend, cache, columns>>

SpecRetry == InitRetry /\ [][RunRetry]_vars

(***************************************************************************)
(* SpecSystem: ingestion calls and dashboard sessions on one table.  A     *)
(* session opened after an ingestion call finds the frame st.cache_data    *)
(* still holds.                                                            *)
(***************************************************************************)

SystemInputs ==
    ManualInputs \cup {Input(ItemAttack, KidnappingAnswer, "error", "ok", "ok")}

\* bound on the rows of the shared table
MaxSystemRows == 2

HarvestOne == Len(reports) < MaxSystemRows /\ \E i \in SystemInputs : HarvestItem(i)

ProcessOne == Len(reports) < MaxSystemRows /\ \E i \in SystemInputs : ProcessReport(i)

NextSystem ==
    HarvestOne \/ ProcessOne \/ OpenDashboard \/ ChangeFilter \/ RefreshData \/ DownloadCsv

SpecSystem == Init /\ [][NextSystem]_vars

(***************************************************************************)
(* Properties                                                              *)
(***************************************************************************)

\* the literal an answered object gives for a key, "" when it gives none
FieldLiteral(a, key) ==
    IF a.kind = "object" /\ \E m \in 1..Len(a.payload) : a.payload[m].k = key
    THEN a.payload[CHOOSE m \in 1..Len(a.payload) : a.payload[m].k = key].lit
    ELSE ""

\* two different rows of the table with the same report_url
SameUrl(m, n) == m # n /\ reports[m].report_url = reports[n].report_url

\* C1 (SpecClassify): the severity a row stores is an integer in 1..5, and it
\* is 3 whenever the answer gives no severity, or one that is not an integer
\* in 1..5, or when classification failed (every later call failing too).
\* The code stores 1 for the JSON value true.
C1_SeverityCoerced ==
    \A n \in 1..Len(reports) :
        /\ reports[n].severity \in 1..5
        /\ (inp.retry = "error"
            /\ FieldLiteral(inp.first, "severity") \notin {"1", "2", "3", "4", "5"})
           => reports[n].severity = 3

\* C2 (SpecHarvester): after every harvester step the table holds at most one
\* row per report_url, and a store_content call whose URL is already stored
\* returns False and leaves the table as it was.
C2_HarvestIdempotent ==
    [][ /\ \A m, n \in 1..Len(reports') :
              m # n => reports'[m].report_url # reports'[n].report_url
        /\ (out'.k = "record" /\ UrlStored(reports, out'.rec.url))
              => (reports' = reports /\ out'.ret = FALSE) ]_vars

\* C2, the case: a record whose URL was in the table was handed to
\* store_content, which looked the URL up and returned False
C2_DuplicateSkipped ==
    /\ out.op = "harvest" /\ out.k = "record" /\ inp.db = "ok"
    /\ out.ret = FALSE
    /\ out.calls[Len(out.calls)] = "select"
    /\ \E n \in 1..Len(reports) : reports[n].report_url = out.rec.url

\* C3 (Spec): two rows never share a non-null report_url when at least one of
\* them was written by process_and_store_report.  The processor never looks
\* the URL up, so the code writes the second row.
C3_OneRowPerUrl ==
    \A m, n \in 1..Len(reports) :
        (SameUrl(m, n) /\ reports[m].report_url # NULL /\ audit[n].by = -1) => FALSE

\* C4 (SpecConcurrent): rows sharing a report_url come from the race only: they
\* were written by different processes, and the writer of the later row had
\* looked the URL up before the earlier row was inserted.
C4_DuplicatesOnlyByRace ==
    \A m, n \in 1..Len(reports) :
        (m < n /\ SameUrl(m, n)) => (audit[m].by # audit[n].by /\ audit[n].seen < m)

\* C4, the case: both processes passed the look-up for one URL and both inserted
C4_DoubleInsert ==
    \E m, n \in 1..Len(reports) :
        /\ m < n /\ SameUrl(m, n)
        /\ audit[m].by # audit[n].by
        /\ \A p \in Procs : hpc[p] = "idle"

\* C5 (SpecClassify): the harvester returns no record for a stripped text of
\* fewer than 20 characters and makes no classification, geocoding or storage
\* call for it; a text of exactly 20 characters reaches the classification.
C5_ShortTextDropped ==
    (out.op = "harvest" /\ inp.item.dict) =>
        /\ Len(extract_content_text(inp.item).text) < 20
              => (out.k = "none" /\ out.calls = <<>> /\ reports = <<>>)
        /\ Len(extract_content_text(inp.item).text) = 20
              => (Len(out.calls) > 0 /\ out.calls[1] = "llm")

\* C5, the case: a title of 20 characters that strips to 18 was dropped although
\* the LLM would have classified it
C5_ShortTextSeen ==
    /\ out.op = "harvest" /\ out.k = "none"
    /\ Len(inp.item.title) = 20
    /\ Len(extract_content_text(inp.item).text) = 18
    /\ inp.first = KidnappingAnswer

\* C6 (SpecClassify): the processor writes no row for a text of fewer than 20
\* characters.  process_and_store_report has no length test and writes it.
C6_ProcessorDropsShort ==
    (out.op = "process" /\ Len(RawTextOf(inp.item)) < 20) => reports = <<>>

\* C7 (SpecClassify): when normalize_event_type gives "natural_disaster" the
\* harvester returns no record and writes no row.
C7_DisasterDropped ==
    (out.op = "harvest" /\ out.norm = "natural_disaster")
        => (out.k = "none" /\ reports = <<>>)

\* C7, the case: a text naming a flood and gang violence, classified by the LLM
\* as a kidnapping of severity 5, was normalized to natural_disaster
C7_DisasterSeen ==
    /\ out.op = "harvest" /\ out.norm = "natural_disaster"
    /\ inp.item = ItemFlood
    /\ HasConflictKeyword(extract_content_text(inp.item).text)
    /\ inp.first = KidnappingAnswer
    /\ out.calls = <<"llm", "geocode">>

\* the input i with the object of its first answer sent without any wrapping
Unwrapped(i) == [i EXCEPT !.first.wrap = "raw"]

\* what the harvester returns for input i: the value, the record, the normalized type
HarvesterResult(i) ==
    LET p == process_single_item(extract_content_text(i.item), AnswerOf(i.first), i.geo)
    IN  <<p.k, p.rec, p.norm>>

\* the event type, location and severity of the row the processor builds for input i
ProcessorResult(i) ==
    LET r == process_and_store_report(<<>>, RawTextOf(i.item), ReportUrlOf(i.item),
                                      LlmsOf(i.first, i.retry), i.geo, 0, i.db).row
    IN  <<r.event_type, r.location_text, r.severity>>

\* the last call gave the result the same object gives when sent unwrapped
SameAsUnwrapped ==
    IF out.op = "harvest"
    THEN <<out.k, out.rec, out.norm>> = HarvesterResult(Unwrapped(inp))
    ELSE <<out.rec.event_type, out.rec.location_text, out.rec.severity>>
            = ProcessorResult(Unwrapped(inp))

\* C8 (SpecClassify): an answer that is a JSON array with one object gives the
\* result the object gives when answered directly, in the harvester and in the
\* processor.  The harvester fails on the array and falls back.
C8_ArrayAsObject ==
    (out.op # "idle" /\ inp.first.kind = "object" /\ inp.first.wrap = "array")
        => SameAsUnwrapped

\* C9 (SpecClassify): an answer wrapped in a json fence or in a bare fence
\* gives the result the same object gives without the fence, in the harvester
\* and in the processor.  An object with a fence inside a string is cut at that
\* fence; the processor then retries and may classify from another answer.
C9_FencedAsUnfenced ==
    (out.op # "idle" /\ inp.first.kind = "object" /\ inp.first.wrap \in {"json", "bare"})
        => SameAsUnwrapped

\* the names of the gazetteer of the entry point that wrote a row
GazetteerNames(op) ==
    IF op = "harvest" THEN {haiti_locations[k] : k \in 1..Len(haiti_locations)}
    ELSE {AllVariants[k].name : k \in 1..Len(AllVariants)}

\* the text of a row holds a name of the gazetteer of its entry point
HoldsKnownName(op, text) ==
    IF op = "harvest" THEN FallbackLocation(text) # NULL
    ELSE LocalLocation(text).name # NULL

\* C10 (SpecClassify): when the text holds a gazetteer name and the LLM answers
\* the location "Haiti" or "", the row stores a gazetteer name, not "Haiti".
\* The processor keeps "Haiti" when the name has five characters or fewer.
C10_GazetteerNameStored ==
    \A n \in 1..Len(reports) :
        (/\ inp.first.kind = "object" /\ inp.first.wrap = "raw"
         /\ FieldLiteral(inp.first, "location") \in {"\"Haiti\"", "\"\""}
         /\ HoldsKnownName(out.op, reports[n].raw_text))
        => reports[n].location_text \in GazetteerNames(out.op)

\* the widgets of the rendered view narrow nothing: severity 1..5, conflict-only
\* unchecked, both multiselects and the date range at their defaults
NoFilterNarrows ==
    /\ out.op = "dashboard" /\ out.k = "rendered"
    /\ inp.severity = <<1, 5>> /\ ~inp.conflict_only
    /\ inp.event_types = EventOptions(cache.df)
    /\ inp.areas = AreaOptions(cache.df)
    /\ inp.date_range = DefaultDateRange(DateCol(cache.df), clock)

\* C11 (SpecDashboard): when no filter narrows the view, Total Incidents is the
\* number of rows of the reports table and Avg Severity is the mean of its
\* severity column to two decimals, whatever the table holds.  The code leaves
\* out the rows whose severity, event_type or location_text is null and the
\* rows whose dates do not parse.
C11_MetricsOfWholeTable ==
    NoFilterNarrows
        => out.total = Len(reports) /\ out.avg = MeanSeverity(reports)

\* C12 (SpecDashboard): with a date range [start, end] chosen, every row of the
\* filtered frame has an effective date (created_date, or the timestamp when
\* created_date is missing) that parses and lies in [start, end + 1 day).
C12_DateRangeRespected ==
    (out.op = "dashboard" /\ out.k = "rendered" /\ Len(inp.date_range) = 2)
        => \A k \in 1..Len(out.filtered) :
              /\ ~EffectiveDate(out.filtered[k]).nat
              /\ EffectiveDate(out.filtered[k]).at >= inp.date_range[1] * DayLen
              /\ EffectiveDate(out.filtered[k]).at < (inp.date_range[2] + 1) * DayLen

\* C12, the case: the range is one day; a row dated at noon of that day is
\* shown, a row dated at midnight of the next day and a row whose dates do not
\* parse are in the frame and are not shown
C12_DayBoundarySeen ==
    /\ out.op = "dashboard" /\ out.k = "rendered"
    /\ inp.date_range = <<2, 2>>
    /\ \E k \in 1..Len(out.filtered) : EffectiveDate(out.filtered[k]).at = 2 * DayLen + 1
    /\ \E k \in 1..Len(cache.df) :
          \/ EffectiveDate(cache.df[k]) = At(3 * DayLen)
          \/ EffectiveDate(cache.df[k]).nat
    /\ Len(out.filtered) < Len(cache.df)

\* C13 (SpecBatch): a storage failure is contained.  The ingestion call whose
\* statements fail returns False and leaves the table as it was, in the
\* harvester and in the processor, and the harvester loop goes on to the next
\* document, or to the next content type after the last document.
C13_StorageFailureContained ==
    [][ (out'.k = "record" /\ inp'.db = "fail")
           => /\ reports' = reports /\ out'.ret = FALSE
              /\ (out'.op = "harvest" /\ hpc.item < Len(pend))
                    => (hpc'.at = "items" /\ hpc'.item = hpc.item + 1 /\ pend' = pend)
              /\ (out'.op = "harvest" /\ hpc.item = Len(pend))
                    => (hpc'.at = "type" /\ hpc'.type = hpc.type + 1) ]_vars

\* C13, the case: a row is stored, the insert of another document has just
\* failed in the database, and the loop stands at the document after it
C13_InsertFailed ==
    /\ out.op = "harvest" /\ out.k = "record"
    /\ inp.db = "fail" /\ out.ret = FALSE
    /\ Len(reports) > 0
    /\ \A n \in 1..Len(reports) : reports[n].report_url # out.rec.url
    /\ hpc.at = "items" /\ hpc.item = 2

\* the harvester's record without its coordinates
WithoutCoords(rec) ==
    IF rec.k = "record" THEN [rec EXCEPT !.location_coords = NULL] ELSE rec

\* the processor's row without its coordinates
RowWithoutCoords(row) ==
    [row EXCEPT !.location_coords = NULL, !.latitude = NULL, !.longitude = NULL]

\* the harvester did what okres, the result with a successful geocoder call,
\* says, apart from the coordinates, and stored the record it made
HarvestedAsWith(okres) ==
    /\ out.k = okres[1]
    /\ out.rec = WithoutCoords(okres[2])
    /\ out.k = "record" => (out.ret /\ reports = <<HarvesterRow(out.rec, 0)>>)

\* the processor stored the row okrow, the one of a successful look-up, apart
\* from the coordinates
ProcessedAsWith(okrow) ==
    out.ret /\ out.rec = RowWithoutCoords(okrow) /\ reports = <<out.rec>>

\* C14 (SpecClassify): a geocoding failure is not fatal.  When the geocoder of
\* the harvester raises or finds nothing, or the look-up of the processor
\* raises, the document is classified, filtered and stored as with a
\* successful look-up, with null coordinates.
C14_GeocodingFailureTolerated ==
    /\ (out.op = "harvest" /\ inp.geo # "ok")
          => HarvestedAsWith(HarvesterResult([inp EXCEPT !.geo = "ok"]))
    /\ (out.op = "process" /\ inp.geo = "raise")
          => ProcessedAsWith(process_and_store_report(<<>>, RawTextOf(inp.item),
                                ReportUrlOf(inp.item), LlmsOf(inp.first, inp.retry),
                                "ok", 0, inp.db).row)

\* C14, the case: the geocoder raised for the location of a document that a
\* successful call would have given coordinates, and the harvester stored the
\* document without them
C14_GeocoderRaised ==
    /\ out.op = "harvest" /\ inp.geo = "raise" /\ out.k = "record" /\ out.ret
    /\ out.rec.location_text = "Delmas" /\ out.rec.location_coords = NULL
    /\ HarvesterResult([inp EXCEPT !.geo = "ok"])[2].location_coords = GeoCoords

\* one step of the harvest keeps the order of the loop: a failed fetch gives
\* no item and leads to the next content type, a fetch with items leads to the
\* first of them, an attempt is made on the item the loop stands at and leads
\* to the item after it or, after the last, to the next content type, and no
\* other step moves the loop
InLoopOrder ==
    /\ (out'.op = "fetch" /\ ~out'.ok)
          => (out'.n = 0 /\ hpc'.at = "type" /\ hpc'.type = hpc.type + 1)
    /\ (out'.op = "fetch" /\ out'.n > 0)
          => (hpc'.at = "items" /\ hpc'.item = 1 /\ hpc'.type = hpc.type
              /\ Len(pend') = out'.n)
    /\ out'.op = "harvest"
          => /\ hpc.at = "items" /\ pend' = pend
             /\ inp' = OfType(pend[hpc.item], content_types[hpc.type])
             /\ IF hpc.item < Len(pend)
                THEN hpc'.at = "items" /\ hpc'.item = hpc.item + 1 /\ hpc'.type = hpc.type
                ELSE hpc'.at = "type" /\ hpc'.type = hpc.type + 1
    /\ out'.op = "process" => (hpc' = hpc /\ pend' = pend)

\* how far the loop has come: content types before items, the end last
LoopRank(pos) ==
    IF pos.at = "end" THEN (Len(content_types) + 2) * (MaxFetched + 2)
    ELSE pos.type * (MaxFetched + 2) + pos.item

\* the run can take its next step: it stands at a content type to fetch, at
\* an item of the fetched list, after the last content type with the summary
\* to print, or at its end with the summary printed
CanStep ==
    \/ hpc.at = "type" /\ hpc.type \in 1..(Len(content_types) + 1)
    \/ hpc.at = "items" /\ hpc.type \in 1..Len(content_types) /\ hpc.item \in 1..Len(pend)
    \/ hpc.at = "end" /\ out.op = "summary"

\* C15 (SpecBatch): no failure of a fetch, a classification, a geocoding call
\* or an insert aborts harvest_all_content.  The steps of a run keep the order
\* of the loop, so that every fetched item is attempted once, in fetch order;
\* every step of the run brings it nearer to its end, it can always take its
\* next step, and it ends with the summary printed.
C15_BatchNeverAborts ==
    /\ [][ /\ InLoopOrder
           /\ out'.op \in {"fetch", "harvest", "summary"} => LoopRank(hpc') > LoopRank(hpc) ]_vars
    /\ []CanStep

\* C15, the case: the summary is printed after a run whose last insert failed,
\* with one item counted and none stored
C15_SummaryAfterFailures ==
    /\ hpc.at = "end" /\ out.op = "summary"
    /\ out.items = 1 /\ out.stored = 0
    /\ inp.db = "fail"

\* C16 (SpecSystem): rows are only ever added.  Every step of the harvester,
\* the processor or the dashboard leaves the rows stored before it in place
\* with every field unchanged, and a dashboard step (first run, filter change,
\* refresh, download) leaves the whole table as it was.
C16_RowsNeverChange ==
    [][ /\ Len(reports') >= Len(reports)
        /\ SubSeq(reports', 1, Len(reports)) = reports
        /\ out'.op = "dashboard" => reports' = reports ]_vars

\* C16, the case: the filtered frame is downloaded in a session that shows
\* the cached frame of one row, after a second row was stored
C16_DownloadAfterIngestion ==
    /\ out.op = "dashboard" /\ out.k = "rendered" /\ out.downloaded
    /\ Len(reports) = 2 /\ Len(cache.df) = 1

\* C17 (SpecClassify): a harvested document that the domain filter drops has
\* caused no geocoding lookup and no storage call -- the statement of the
\* claim.  The harvester geocodes the location before it applies the filter,
\* so a dropped document with a location has caused a lookup.
C17_DroppedMakesNoLookup ==
    (out.op = "harvest" /\ out.k = "none")
        => \A n \in 1..Len(out.calls) : out.calls[n] \notin {"geocode", "select", "insert", "db"}

\* the text of answer llm is JSON for an object or an array, the values the
\* try block of process_with_gemini_pro turns into a result
ParsesAt(llm) ==
    llm.ok /\ JsonLoads(StripFences(Strip(llm.text))).t \in {"dict", "list"}

\* the first attempt of the script whose answer parses, 0 when none does
FirstParsing(llms, retries) ==
    IF \E j \in 1..retries : ParsesAt(llms[j])
    THEN CHOOSE j \in 1..retries :
             ParsesAt(llms[j]) /\ \A m \in 1..(j - 1) : ~ParsesAt(llms[m])
    ELSE 0

RetryPolicy(first, retries) ==
    /\ out.calls = (IF first = 0 THEN retries ELSE first)
    /\ out.calls <= retries
    /\ out.sleeps = out.calls - 1
    /\ first = 0 => out.res = DefaultClassification
    /\ DOMAIN out.res = {"event_type", "location", "severity"}
    /\ out.res.severity \in 1..5

\* C18 (SpecRetry): process_with_gemini_pro with retries >= 1 calls the LLM up
\* to and including the first attempt whose answer parses and never more than
\* `retries` times, sleeps once after every failed attempt but the last of the
\* `retries`, returns the default classification when every attempt failed,
\* and in every case returns a record of event_type, location and a severity
\* of 1..5.
C18_BoundedRetry ==
    out.op = "retry" => RetryPolicy(FirstParsing(inp.llms, inp.retries), inp.retries)

\* C18, the case: with retries=3 the first answer was a JSON number, the
\* second call raised and the third answered the object
C18_ThirdAttemptParsed ==
    /\ out.op = "retry" /\ inp.retries = Retries
    /\ inp.llms[1] = Answer("5") /\ inp.llms[2] = LlmError /\ inp.llms[3] = GoodAnswer
    /\ out.calls = 3 /\ out.sleeps = 2
    /\ out.res = Classified("protest", "Jacmel", 1)

\* what json.loads gives for the first answer of input i
FirstLoaded(i) == JsonLoads(StripFences(Strip(AnswerOf(i.first).text)))

\* the first answer of input i is an object whose event_type or location is a list
HasListField(i, loaded) ==
    /\ i.first.kind = "object" /\ loaded.t = "dict"
    /\ \/ DictGet(loaded.d, "event_type", JStr("other")).t = "list"
       \/ DictGet(loaded.d, "location", JStr("")).t = "list"

\* C19 (SpecClassify): a document whose classification has a list-valued
\* event_type or location goes on through ingestion in the harvester and in
\* the processor: no exception ends its processing -- the statement of the
\* claim.  The harvester joins a list-valued event_type but calls .strip() on
\* a list-valued location, which raises, and the document is skipped.
C19_ListFieldsCoerced ==
    (out.op \in {"harvest", "process"} /\ HasListField(inp, FirstLoaded(inp)))
        => out.k # "raise"

\* the first name HAITI_LOCATIONS lists for the entry with this key
CanonicalName(key) ==
    HAITI_LOCATIONS[CHOOSE k \in 1..Len(HAITI_LOCATIONS) : HAITI_LOCATIONS[k].key = key].names[1]

\* the gazetteer match local is preferred over the classifier's location
LocalPreferred(local, ai_location) ==
    local.name # NULL /\ (ai_location = "" \/ Len(local.name) > Len(ai_location))

CanonicalStored(local, ai_location) ==
    LocalPreferred(local, ai_location) => out.rec.location_text = CanonicalName(local.key)

\* C20 (SpecClassify): when the processor prefers the gazetteer match over the
\* classifier's location, the row stores the first name listed for the matched
\* entry -- the statement of the claim.  find_specific_haiti_location returns
\* the variant that matched the text, and that spelling is stored.
C20_CanonicalNameStored ==
    out.op = "process"
        => CanonicalStored(LocalLocation(RawTextOf(inp.item)),
                           process_with_gemini_pro(LlmsOf(inp.first, inp.retry)).res.location)

\* the rows of the frame that pass every one of the five tests taken alone
PassAllAlone(df, w) ==
    LET alone(Test(_, _)) == {k \in 1..Len(df) : Test(df[k], w)}
        all == alone(BySeverity) \cap alone(ByEventType) \cap alone(ByArea)
               \cap alone(ByConflict) \cap alone(ByDate)
    IN  SelectSeq([k \in 1..Len(df) |-> [at |-> k, row |-> df[k]]],
                  LAMBDA x : x.at \in all)

\* the five masks applied in the reverse of the script's order
FilteredBackwards(df, w) ==
    Mask(Mask(Mask(Mask(Mask(df, ByDate, w), ByConflict, w), ByArea, w),
              ByEventType, w), BySeverity, w)

RowsOf(picked) == [k \in 1..Len(picked) |-> picked[k].row]

IsComposition(df, w) ==
    /\ out.filtered = RowsOf(PassAllAlone(df, w))
    /\ out.filtered = FilteredBackwards(df, w)
    /\ w.conflict_only
          => \A k \in 1..Len(out.filtered) : out.filtered[k].event_type \in conflict_set

\* C21 (SpecDashboard): the filtered frame holds exactly the rows of the loaded
\* frame that pass each of the five tests (severity, event type, location,
\* conflict-only, date) taken alone, in the frame's order; applying the tests
\* in the reverse order gives the same frame; and with conflict-only checked
\* every row shown has one of the seven conflict event types.
C21_FiltersCompose ==
    (out.op = "dashboard" /\ out.k = "rendered") => IsComposition(cache.df, inp)

\* C21, the case: conflict-only is checked with a narrowed severity range, one
\* location selected and a date range of two days on a frame of two rows, one
\* of which passes all the tests
C21_AllFiltersActive ==
    /\ out.op = "dashboard" /\ out.k = "rendered"
    /\ inp.conflict_only /\ inp.severity = <<2, 4>>
    /\ Cardinality(inp.areas) = 1 /\ Len(inp.date_range) = 2
    /\ Len(cache.df) = 2 /\ Len(out.filtered) = 1

\* the columns the run that just ended was to add
ToAdd(by) == IF by = "database" THEN Range(new_columns) ELSE Range(alter_block)

\* C22 (SpecMigrate): after a run of either column migration, from any
\* starting schema, the table has every column that run adds and the row
\* stored before reads as it did -- the statement of the claim.  The ALTER
\* TABLE block of store_content stops at the first column that exists and
\* leaves the later columns out.
C22_MigrationComplete ==
    out.op = "migrate"
        => /\ ToAdd(out.k) \subseteq columns
           /\ \A c \in inp.columns : reports[1][c] = "old"

\* C23 (SpecDashboard): when the reports table has no rows, or the query of
\* load_crisis_data failed so that the frame is empty, the run shows the
\* blocking message and stops: it built no widget and rendered nothing (no
\* filtered frame, no metric).
C23_EmptyFrameStops ==
    (out.op = "dashboard" /\ (reports = <<>> \/ cache.df = <<>>))
        => (out = Stopped /\ inp = NoWidgets)

\* C23, the case: the table holds rows, the query failed, and the run stopped
C23_UnreadableStopped ==
    /\ out = Stopped /\ reports # <<>> /\ cache.k = "df" /\ cache.df = <<>>

\* location_coords of a row says what its latitude and longitude say
SamePosition(r) ==
    IF r.latitude = NULL /\ r.longitude = NULL THEN r.location_coords = NULL
    ELSE /\ r.latitude # NULL /\ r.longitude # NULL
         /\ r.location_coords = r.latitude \o "," \o r.longitude

\* C24 (SpecClassify): in every row either ingestion path wrote, location_coords
\* is null exactly when latitude and longitude are null and is otherwise the
\* text "latitude,longitude" -- the statement of the claim.  The harvester's
\* INSERT names location_coords and neither latitude nor longitude, so a
\* geocoded row holds coordinates next to a null latitude and longitude.
C24_CoordsAgree ==
    \A n \in 1..Len(reports) : SamePosition(reports[n])

\* the last seven (or fewer) counts of daily, summed one by one
LastCounts(daily) ==
    {k \in 1..Len(daily) : k > Len(daily) - 7}

\* the forecast res is thirty consecutive days after the last day of daily, each
\* with the mean of the last seven daily counts
IsFlatForecast(res, daily) ==
    /\ res.k = "forecast"
    /\ Len(res.future_days) = 30
    /\ \A j \in 1..30 :
          /\ res.future_days[j].days_since_start = daily[Len(daily)].day + j
          /\ res.future_days[j].ma_7.over = Cardinality(LastCounts(daily))
          /\ res.future_days[j].ma_7.sum
                = SumCounts(daily, Len(daily) - Cardinality(LastCounts(daily)) + 1, Len(daily))

\* C25 (SpecForecast): a filtered frame of at least 30 rows gets the forecast,
\* thirty consecutive days after the last observed day, each with the last
\* value of the 7-day moving average; a frame of fewer rows gets the message
\* -- the statement of the claim.  The script tests len(filtered) > 30, so a
\* frame of exactly 30 rows gets the message.
C25_ForecastFromThirty ==
    out.op = "forecast"
        => IF FrameLen(inp.daily) >= 30 THEN IsFlatForecast(out.res, inp.daily)
           ELSE out.res.k = "insufficient"

\* C26 (SpecClassify): every row the harvester writes has one of the seven
\* conflict event types -- the statement of the claim.  normalize_event_type
\* answers "other" for an empty or null event_type before it looks at the
\* text, and is_conflict_related keeps the document when the text holds a
\* conflict keyword.
C26_HarvesterRowsAreConflict ==
    out.op = "harvest"
        => \A n \in 1..Len(reports) : reports[n].event_type \in ConflictTypes

\* C27 (SpecClassify): a document whose text holds a disaster keyword is never
\* stored by the harvester, whatever the LLM answered -- the statement of the
\* claim.  For an empty or null event_type normalize_event_type answers
\* "other" before it looks for disaster keywords, and a conflict keyword in
\* the text then keeps the document.
C27_DisasterTextNeverStored ==
    (/\ out.op = "harvest" /\ inp.item.dict
     /\ HasDisasterKeyword(extract_content_text(inp.item).text))
        => reports = <<>>

\* no row of the frame has a null event_type / a null location_text
EventTypesKnown(df) == \A k \in 1..Len(df) : df[k].event_type # NULL

AreasKnown(df) == \A k \in 1..Len(df) : df[k].location_text # NULL

SameAsAllSelected(df, w) ==
    /\ (w.event_types = {} /\ EventTypesKnown(df))
          => out.filtered = Filtered(df, [w EXCEPT !.event_types = EventOptions(df)])
    /\ (w.areas = {} /\ AreasKnown(df))
          => out.filtered = Filtered(df, [w EXCEPT !.areas = AreaOptions(df)])

WritersStoreNoNull ==
    \A n \in 1..Len(reports) :
        reports[n].event_type # NULL /\ reports[n].location_text # NULL

\* the variants of the gazetteer (by position in declaration order) whose
\* lower-case spelling occurs in the lower-case text
Occurring(text_lower) ==
    {k \in 1..Len(AllVariants) : Contains(text_lower, Lower(AllVariants[k].name))}

\* res is the match of the highest priority, the earliest declared among equals
IsBestMatch(res, hits) ==
    IF hits = {} THEN res = NoLocation
    ELSE /\ res # NoLocation
         /\ \E k \in hits :
               /\ res = AllVariants[k]
               /\ \A j \in hits :
                     \/ priority_order(AllVariants[k].type) > priority_order(AllVariants[j].type)
                     \/ /\ priority_order(AllVariants[k].type) = priority_order(AllVariants[j].type)
                        /\ k <= j

\* C29 (SpecGazetteer): find_specific_haiti_location returns None exactly when
\* no name variant of the gazetteer occurs in the text, case ignored, and
\* otherwise a match whose type has the highest priority of all matches (slum,
\* neighborhood, commune, city), the earliest in declaration order among the
\* matches of that priority.
C29_BestMatchReturned ==
    out.op = "lookup" => IsBestMatch(out.res, Occurring(Lower(inp.text)))

\* C29, the case: the text names a city before a commune in capitals and
\* small letters, and the commune is returned
C29_CommuneBeforeCity ==
    /\ out.op = "lookup"
    /\ inp.text = "Clashes near CAP-HAITIEN and Kenscoff"
    /\ out.res.name = "Kenscoff" /\ out.res.type = "commune"

\* C30 (SpecMetrics): gemini_extract_metrics returns two integers killed and
\* injured, each from 0 up to the threshold, on every path -- the statement of
\* the claim.  The regex fallback drops each match above the threshold and
\* then sums the others, and the sum may be above the threshold.
C30_CountsWithinThreshold ==
    out.op = "metrics"
        => /\ out.res.killed \in 0..DefaultThreshold
           /\ out.res.injured \in 0..DefaultThreshold

====
